---- MODULE Spec2Model ----
(***************************************************************************)
(* The agent pipeline of the radiology analytics chat service:             *)
(*   chat -> domain_expert -> analytics_specialist                         *)
(*        -> { visualization_specialist, quality_inspector }               *)
(*        -> report_writer (join per session_id) -> response_storage       *)
(* and the pending-response mailbox polled by the chat endpoint.           *)
(*                                                                         *)
(* Handlers are scheduled tasks of one event loop.  A handler runs         *)
(* atomically between external calls; an external call (LLM, query         *)
(* service) is a suspension point.  Only report_writer_handler touches     *)
(* shared state around a suspension point, so its LLM calls are separate   *)
(* steps; the other handlers read and write nothing but their own spore    *)
(* and are one step each, the outcome of their external call being chosen  *)
(* in that step.                                                           *)
(***************************************************************************)
EXTENDS Integers, Sequences, FiniteSets, Bags, TLC

VARIABLES
    chat_state,         \* app.py chat(): per session_id, the position of its current call
    reef,               \* spores scheduled for delivery: [to |-> handler, knowledge |-> unit]
    session_data,       \* report_writer._session_data
    pending_responses,  \* report_writer._pending_responses
    composing,          \* report_writer_handler invocations suspended at an LLM call
    sent,               \* history: bag of <<type, session_id, rnd>> of every unit broadcast
    llm_log,            \* history: LLM calls made, [agent, session_id, rnd, call, ok]
    svc_log,            \* history: bag of tabular query service calls, [session_id, rnd, raised]
    taken,              \* history: successful mailbox takes, [session_id, call, response]
    session_manager,    \* session_manager.py: the global SessionManager, [sessions, session_timestamps]
    manager_history,    \* history of the session manager's calls, and the clock
    el_pipeline         \* el_pipeline: the sources, the warehouse raw tables, the sync's position

vars == <<chat_state, reef, session_data, pending_responses, composing,
          sent, llm_log, svc_log, taken, session_manager, manager_history, el_pipeline>>

\* the state of the agents and of the chat endpoint
agents == <<chat_state, reef, session_data, pending_responses, composing,
            sent, llm_log, svc_log, taken>>

\* the session manager and the EL pipeline, whose state no agent reads or writes
back_office == <<session_manager, manager_history, el_pipeline>>

(***************************************************************************)
(* Bounds and input sets                                                   *)
(***************************************************************************)
\* total number of /chat calls made over all sessions
MaxQueries == 2

Sessions == {"s1", "s2"}

\* result-set sizes the query service may return
RowCounts == {2}

\* chart types the chart-selection LLM may answer with
LLMChartTypes == {"table"}

\* Python None in a slot that otherwise holds a dict; None rendered in a string
None == [type |-> "None"]
NoReason == "None"

\* dict operations: a dict is a function whose domain is its set of keys
Put(dict, key, value) == [x \in DOMAIN dict \cup {key} |-> IF x = key THEN value ELSE dict[x]]
Del(dict, key) == [x \in DOMAIN dict \ {key} |-> dict[x]]

\* dict.get(key, default)
Get(dict, key, default) == IF key \in DOMAIN dict THEN dict[key] ELSE default

(***************************************************************************)
(* Knowledge bus (praval broadcast / @agent(responds_to=...))              *)
(***************************************************************************)
Subscribers(type) ==
    CASE type = "user_query" -> {"domain_expert"}
      [] type = "domain_enriched_request" -> {"analytics_specialist"}
      [] type = "data_ready" -> {"visualization_specialist", "quality_inspector"}
      [] type = "chart_ready" -> {"report_writer"}
      [] type = "insights_ready" -> {"report_writer"}
      [] type = "final_response_ready" -> {"response_storage"}
      [] OTHER -> {}

Deliveries(knowledge) ==
    {[to |-> h, knowledge |-> knowledge] : h \in Subscribers(knowledge.type)}

\* what the history keeps of a unit
Label(knowledge) == <<knowledge.type, knowledge.session_id, knowledge.rnd>>

\* broadcast(k1); broadcast(k2); ... made by one handler step; done holds the delivery
\* the step consumed, if it is the step that started the handler
Broadcast(done, units) ==
    /\ reef' = (reef \ done) \cup UNION {Deliveries(units[i]) : i \in 1..Len(units)}
    /\ sent' = sent (+) [l \in {Label(units[i]) : i \in 1..Len(units)} |->
                            Cardinality({i \in 1..Len(units) : Label(units[i]) = l})]

Inbox(handler) == {d \in reef : d.to = handler}

(***************************************************************************)
(* app.py: chat() -- broadcast of user_query                               *)
(***************************************************************************)
RECURSIVE CallsMade(_)
CallsMade(S) ==
    IF S = {} THEN 0
    ELSE LET s == CHOOSE x \in S : TRUE IN chat_state[s].rnd + CallsMade(S \ {s})

user_query(s, r) == [type |-> "user_query", session_id |-> s, rnd |-> r]

\* app.py 194-228: a call for session s builds user_query and broadcasts it, then polls.
\* One call per session_id at a time (a client sends its next message after the answer
\* or the timeout message); rnd numbers the calls of a session.  Sessions are
\* interchangeable, so s2 is taken to be the one that asks second.
chat_broadcast(s) ==
    /\ chat_state[s].pc = "idle"
    /\ CallsMade(Sessions) < MaxQueries
    /\ (s = "s2" => chat_state["s1"].rnd > 0)
    /\ LET r == chat_state[s].rnd + 1 IN
         /\ chat_state' = [chat_state EXCEPT ![s] = [pc |-> "polling", rnd |-> r]]
         /\ reef' = reef \cup Deliveries(user_query(s, r))
         /\ sent' = sent (+) SetToBag({Label(user_query(s, r))})
    /\ UNCHANGED <<session_data, pending_responses, composing, llm_log, svc_log, taken>>
    /\ UNCHANGED back_office

(***************************************************************************)
(* domain_expert.py                                                        *)
(***************************************************************************)
\* what the planner LLM may answer (json result), as far as the pipeline reads it
PlannerResults ==
    { [is_rejected |-> FALSE, rejection_reason |-> NoReason,
       metrics |-> <<"count">>, dimensions |-> <<"modality">>],
      [is_rejected |-> TRUE, rejection_reason |-> "out of scope",
       metrics |-> <<"count">>, dimensions |-> <<>>] }

\* lines 109-116 and 119-130
valid_dimensions ==
    {"caseId", "srNo", "modality", "subSpecialty", "bodyPartCategory",
     "bodyPart", "studyDescription", "scanType", "instituteName",
     "unitIdentifier", "originalRadiologist", "reviewer", "secondReview",
     "finalOutput", "starRating", "gender", "ageCohort", "age",
     "unableToAudit", "requiredReaudit", "comments", "reportDate",
     "scanDate", "uploadDate", "assignDate", "reviewDate"}

dimension_aliases ==
    ("cat_rating" :> "finalOutput") @@ ("cat" :> "finalOutput") @@ ("catRating" :> "finalOutput")
    @@ ("quality_category" :> "finalOutput") @@ ("peerReviewCategory" :> "finalOutput")
    @@ ("body_part" :> "bodyPart") @@ ("body_part_category" :> "bodyPartCategory")
    @@ ("sub_specialty" :> "subSpecialty") @@ ("subspecialty" :> "subSpecialty")
    @@ ("radiologist" :> "originalRadiologist")
    @@ ("original_radiologist" :> "originalRadiologist")
    @@ ("institute" :> "instituteName") @@ ("hospital" :> "instituteName")
    @@ ("age_cohort" :> "ageCohort") @@ ("ageGroup" :> "ageCohort") @@ ("age_group" :> "ageCohort")
    @@ ("star" :> "starRating") @@ ("stars" :> "starRating")
    @@ ("scan_type" :> "scanType") @@ ("imaging_type" :> "modality")
    @@ ("sex" :> "gender") @@ ("patient_gender" :> "gender")

\* lines 145-153 and 155-163
valid_metrics ==
    {"count", "avgQualityScore", "avgSafetyScore", "avgProductivityScore",
     "avgEfficiencyScore", "avgStarScore", "avgStarRating", "avgAge",
     "avgAssignTat", "avgReviewTat", "cat1Count", "cat2Count", "cat3Count",
     "cat4Count", "cat5Count", "highQualityRate", "reauditCount",
     "avgQ1", "avgQ2", "avgQ3", "avgQ4", "avgQ5", "avgQ6", "avgQ7",
     "avgQ8", "avgQ9", "avgQ10", "avgQ11", "avgQ12Q", "avgQ12S",
     "avgQ13", "avgQ14", "avgQ15", "avgQ16", "avgQ17"}

metric_aliases ==
    ("total" :> "count") @@ ("cases" :> "count") @@ ("number" :> "count")
    @@ ("quality_score" :> "avgQualityScore") @@ ("quality" :> "avgQualityScore")
    @@ ("safety_score" :> "avgSafetyScore") @@ ("safety" :> "avgSafetyScore")
    @@ ("productivity_score" :> "avgProductivityScore")
    @@ ("productivity" :> "avgProductivityScore")
    @@ ("efficiency_score" :> "avgEfficiencyScore") @@ ("efficiency" :> "avgEfficiencyScore")
    @@ ("star_rating" :> "avgStarRating") @@ ("stars" :> "avgStarRating")
    @@ ("avg_age" :> "avgAge") @@ ("average_age" :> "avgAge")

\* the names of a list
Names(list) == {list[i] : i \in 1..Len(list)}

\* a name kept although neither table knows it
resolve_keeping_unknown(name, valid, aliases) ==
    IF name \in DOMAIN aliases /\ name \notin valid THEN <<aliases[name]>> ELSE <<name>>

\* lines 135-142 and 167-172: what one returned name contributes by the tables
resolve(name, valid, aliases) ==
    IF name \in valid THEN <<name>>
    ELSE IF name \in DOMAIN aliases THEN <<aliases[name]>>
    ELSE <<>>

\* lines 132-142: the loop over raw_dimensions
RECURSIVE validate_dimensions(_, _)
validate_dimensions(raw_dimensions, validated_dimensions) ==
    IF raw_dimensions = <<>> THEN validated_dimensions
    ELSE validate_dimensions(Tail(raw_dimensions),
             validated_dimensions \o resolve(Head(raw_dimensions), valid_dimensions,
                                             dimension_aliases))

\* lines 165-176: the loop over raw_metrics; an unknown metric appends "count" unless
\* it is there already
RECURSIVE validate_metrics(_, _)
validate_metrics(raw_metrics, validated_metrics) ==
    IF raw_metrics = <<>> THEN validated_metrics
    ELSE LET resolved == resolve(Head(raw_metrics), valid_metrics, metric_aliases)
         IN validate_metrics(Tail(raw_metrics),
                IF resolved # <<>> THEN validated_metrics \o resolved
                ELSE IF "count" \notin Names(validated_metrics)
                     THEN Append(validated_metrics, "count")
                     ELSE validated_metrics)

\* a planner that publishes whatever the validation left
keep_validated_metrics(validated_metrics) == validated_metrics

\* lines 178-180
ensure_metric(validated_metrics) ==
    IF validated_metrics = <<>> THEN <<"count">> ELSE validated_metrics

\* iterating over the "metrics" or "dimensions" of the answer raises when it is json
\* null, which the except of line 204 catches; an answer lists its null entries under
\* "null" and has no other entry for them
answer_raises(result) == Get(result, "null", {}) # {}

\* analyze_query, lines 106-202 (LLM answered) and 204-220 (LLM failed, or the
\* answer could not be processed)
analyze_query(s, r, ok, result) ==
    IF ok /\ ~answer_raises(result)
    THEN [type |-> "domain_enriched_request",
          is_rejected |-> Get(result, "is_rejected", FALSE),
          rejection_reason |-> Get(result, "rejection_reason", NoReason),
          metrics |-> ensure_metric(validate_metrics(Get(result, "metrics", <<"count">>), <<>>)),
          dimensions |-> validate_dimensions(Get(result, "dimensions", <<>>), <<>>),
          session_id |-> s, rnd |-> r]
    ELSE [type |-> "domain_enriched_request",
          is_rejected |-> FALSE,
          rejection_reason |-> NoReason,
          metrics |-> <<"count">>,
          dimensions |-> <<>>,
          session_id |-> s, rnd |-> r]

LLMCall(agent, k, call, ok) ==
    [agent |-> agent, session_id |-> k.session_id, rnd |-> k.rnd, call |-> call, ok |-> ok]

\* the history entry of the planner's call also keeps the LLM's answer and the verdict
\* it led to
PlannerCall(request, ok, result) ==
    [agent |-> "domain_expert", session_id |-> request.session_id, rnd |-> request.rnd,
     call |-> "analyze_query", ok |-> ok, answer |-> IF ok THEN result ELSE None,
     is_rejected |-> request.is_rejected, rejection_reason |-> request.rejection_reason]

\* lines 230-259, the LLM answering with one of results or failing
plan(d, results) ==
    /\ d \in Inbox("domain_expert")
    /\ \E ok \in BOOLEAN, result \in results :
         /\ (~ok => result = CHOOSE x \in results : TRUE)
         /\ LET request == analyze_query(d.knowledge.session_id, d.knowledge.rnd, ok, result)
            IN /\ Broadcast({d}, <<request>>)
               /\ llm_log' = llm_log \cup {PlannerCall(request, ok, result)}
    /\ UNCHANGED <<chat_state, session_data, pending_responses, composing, svc_log, taken>>
    /\ UNCHANGED back_office

domain_expert_handler(d) == plan(d, PlannerResults)

(***************************************************************************)
(* analytics_specialist.py                                                 *)
(***************************************************************************)
\* a placeholder that looks like an empty result of the query service
untagged_data_ready(k) ==
    [type |-> "data_ready", query_results |-> 0, cube_used |-> "None",
     measures |-> <<>>, dimensions |-> <<>>, row_count |-> 0,
     session_id |-> k.session_id, rnd |-> k.rnd,
     metadata |-> [data_shape |-> "empty", row_count |-> 0]]

\* lines 366-376: the placeholder published for a rejected request
rejected_data_ready(k) ==
    [type |-> "data_ready", query_results |-> 0, cube_used |-> "None",
     measures |-> <<>>, dimensions |-> <<>>, row_count |-> 0,
     session_id |-> k.session_id, rnd |-> k.rnd,
     metadata |-> [is_rejected |-> TRUE, rejection_reason |-> k.rejection_reason]]

\* an error placeholder that says an error happened but not of which kind
untyped_error_data_ready(k, error_type) ==
    [type |-> "data_ready", query_results |-> 0, cube_used |-> "Error",
     measures |-> <<>>, dimensions |-> <<>>, row_count |-> 0,
     session_id |-> k.session_id, rnd |-> k.rnd,
     metadata |-> [error |-> "error text"]]

\* lines 393-433: the placeholder published when the query raised
error_data_ready(k, error_type) ==
    [type |-> "data_ready", query_results |-> 0, cube_used |-> "Error",
     measures |-> <<>>, dimensions |-> <<>>, row_count |-> 0,
     session_id |-> k.session_id, rnd |-> k.rnd,
     metadata |-> [error |-> "error text", error_type |-> error_type]]

\* execute_query 244-273 with _analyze_data_shape 296-329; query_results is the number
\* of rows returned, measures and dimensions are those of the cube query
execute_query(k, n) ==
    [type |-> "data_ready", query_results |-> n, cube_used |-> "RadiologyAudits",
     measures |-> k.metrics, dimensions |-> k.dimensions, row_count |-> n,
     session_id |-> k.session_id, rnd |-> k.rnd,
     metadata |-> IF n = 0 THEN [data_shape |-> "empty", row_count |-> 0]
                  ELSE [data_shape |-> "table", row_count |-> n]]

\* the ways the query service call ends: rows, or the exception classes of 393/407/421
ServiceOutcomes == {"ok", "ValueError", "ConnectionError", "Exception"}

error_type_of(outcome) ==
    CASE outcome = "ValueError" -> "query_error"
      [] outcome = "ConnectionError" -> "connection_error"
      [] OTHER -> "internal_error"

\* the history entry of a call of the query service: for which request, and whether it
\* returned rows or raised
ServiceCall(k, outcome) ==
    [session_id |-> k.session_id, rnd |-> k.rnd, raised |-> outcome # "ok"]

analytics_specialist_handler(d) ==
    /\ d \in Inbox("analytics_specialist")
    /\ LET k == d.knowledge IN
         IF k.is_rejected
         THEN /\ Broadcast({d}, <<rejected_data_ready(k)>>)
              /\ UNCHANGED svc_log
         ELSE /\ \E outcome \in ServiceOutcomes, n \in RowCounts :
                   /\ (outcome # "ok" => n = CHOOSE x \in RowCounts : TRUE)
                   /\ Broadcast({d}, <<IF outcome = "ok" THEN execute_query(k, n)
                                     ELSE error_data_ready(k, error_type_of(outcome))>>)
                   /\ svc_log' = svc_log (+) SetToBag({ServiceCall(k, outcome)})
    /\ UNCHANGED <<chat_state, session_data, pending_responses, composing, llm_log, taken>>
    /\ UNCHANGED back_office

(***************************************************************************)
(* visualization_specialist.py                                             *)
(***************************************************************************)
\* a heuristic that shows ten rows as a table
fallback_chart_type_below_ten(row_count) ==
    IF row_count = 1 THEN "kpi"
    ELSE IF row_count < 10 THEN "bar"
    ELSE "table"

\* a present row_count that is zero is the only case that skips the LLM
needs_chart_llm_unless_zero(metadata) == Get(metadata, "row_count", 1) # 0

\* determine_chart_type 106-115: the heuristic used when the LLM call fails
fallback_chart_type(row_count) ==
    IF row_count = 1 THEN "kpi"
    ELSE IF row_count <= 10 THEN "bar"
    ELSE "table"

\* determine_chart_type 54-58: no LLM call is made for an empty result
needs_chart_llm(metadata) == Get(metadata, "row_count", 0) # 0

\* generate_chart_spec 173-198 with the guards of the _generate_* builders; the
\* specification keeps its type, the shape of its "data" entry ("labels": the Chart.js
\* dict with labels and datasets, "rows": the list of result rows of a table, absent for
\* kpi and empty) and the result set it was built from
generate_chart_spec(k, chart_type) ==
    LET data == k.query_results
        of == <<k.session_id, k.rnd>>
        empty == [type |-> "empty", of |-> of]
        table == IF data = 0 THEN empty
                 ELSE [type |-> "table", data |-> "rows", of |-> of]
        plain(t) == IF data = 0 \/ k.dimensions = <<>> \/ k.measures = <<>> THEN empty
                    ELSE [type |-> t, data |-> "labels", of |-> of]
    IN CASE chart_type = "empty" -> empty
         [] chart_type = "kpi" -> IF data = 0 THEN empty ELSE [type |-> "kpi", of |-> of]
         [] chart_type = "table" -> table
         [] chart_type = "bar" -> plain("bar")
         [] chart_type = "grouped_bar" -> plain("bar")
         [] chart_type = "line" -> plain("line")
         [] chart_type = "donut" -> plain("donut")
         [] OTHER -> table

\* lines 700-705
chart_ready(k, chart_type) ==
    [type |-> "chart_ready", chart_type |-> chart_type,
     chart_spec |-> generate_chart_spec(k, chart_type),
     session_id |-> k.session_id, rnd |-> k.rnd]

visualization_specialist_handler(d) ==
    /\ d \in Inbox("visualization_specialist")
    /\ LET k == d.knowledge IN
         IF needs_chart_llm(k.metadata)
         THEN \E ok \in BOOLEAN, answer \in LLMChartTypes :
                /\ (~ok => answer = CHOOSE x \in LLMChartTypes : TRUE)
                /\ Broadcast({d}, <<chart_ready(k, IF ok THEN answer
                                     ELSE fallback_chart_type(k.metadata.row_count))>>)
                /\ llm_log' = llm_log \cup
                       {LLMCall("visualization_specialist", k, "determine_chart_type", ok)}
         ELSE /\ Broadcast({d}, <<chart_ready(k, "empty")>>)
              /\ UNCHANGED llm_log
    /\ UNCHANGED <<chat_state, session_data, pending_responses, composing, svc_log, taken>>
    /\ UNCHANGED back_office

(***************************************************************************)
(* quality_inspector.py                                                    *)
(***************************************************************************)
EmptyBundle == [observations |-> <<>>, anomalies |-> <<>>, root_causes |-> <<>>]

\* bundles the insight LLM may answer with
LLMBundles ==
    { [observations |-> <<"obs">>, anomalies |-> <<>>, root_causes |-> <<"cause">>] }

\* an inspector that marks every skipped result as rejected
skipped_insights_as_rejected(k) ==
    [type |-> "insights_ready",
     observations |-> <<>>, anomalies |-> <<>>, root_causes |-> <<>>,
     session_id |-> k.session_id, rnd |-> k.rnd,
     is_rejected |-> TRUE,
     rejection_reason |-> Get(k.metadata, "rejection_reason", "")]

\* lines 276-284: rejected or error-tagged data is not analysed
skipped_insights(k) ==
    [type |-> "insights_ready",
     observations |-> <<>>, anomalies |-> <<>>, root_causes |-> <<>>,
     session_id |-> k.session_id, rnd |-> k.rnd,
     is_rejected |-> Get(k.metadata, "is_rejected", FALSE),
     rejection_reason |-> Get(k.metadata, "rejection_reason", "")]

\* analyze_data 55-62, 146-152, 157-163: the unit has no is_rejected entry
analyze_data(k, bundle) ==
    [type |-> "insights_ready",
     observations |-> bundle.observations, anomalies |-> bundle.anomalies,
     root_causes |-> bundle.root_causes,
     session_id |-> k.session_id, rnd |-> k.rnd]

\* an entry of the "anomalies" of an answer: a dict, of which the handler reads the
\* "severity" ("None" when it has none), or something that is no dict
Anomaly(severity) == [dict |-> TRUE, severity |-> severity]
NotADict == [dict |-> FALSE, severity |-> "None"]

\* json.loads raises on an answer that is no JSON, and len() of line 141-143 raises on a
\* list that is json null; the except of 155 catches both.  An answer that is no JSON
\* has the entry "unparsable"; one with null lists names them under "null" and has no
\* other entry for them
bundle_raises(answer) ==
    Get(answer, "unparsable", FALSE) \/ Get(answer, "null", {}) # {}

\* an inspector that keeps the lists it could read
partial_insights(ok, answer) ==
    IF ok /\ ~Get(answer, "unparsable", FALSE)
    THEN [observations |-> Get(answer, "observations", <<>>),
          anomalies |-> Get(answer, "anomalies", <<>>),
          root_causes |-> Get(answer, "root_causes", <<>>)]
    ELSE EmptyBundle

\* analyze_data 133-163: the bundle read from the answer of the LLM, or the empty one
\* when the call failed (~ok) or the answer could not be processed
parse_insights(ok, answer) ==
    IF ok /\ ~bundle_raises(answer)
    THEN [observations |-> Get(answer, "observations", <<>>),
          anomalies |-> Get(answer, "anomalies", <<>>),
          root_causes |-> Get(answer, "root_causes", <<>>)]
    ELSE EmptyBundle

\* an inspector that notifies of every anomaly
any_anomaly_detected(insights) ==
    IF insights.anomalies = <<>> THEN <<>>
    ELSE <<[type |-> "anomaly_detected", anomalies |-> insights.anomalies,
            session_id |-> insights.session_id, rnd |-> insights.rnd]>>

\* detect_critical_anomalies 236-240 and the broadcast of 306-310
anomaly_detected(insights) ==
    LET critical == SelectSeq(insights.anomalies, LAMBDA a : a.severity = "critical") IN
    IF critical = <<>> THEN <<>>
    ELSE <<[type |-> "anomaly_detected", anomalies |-> critical,
            session_id |-> insights.session_id, rnd |-> insights.rnd]>>

\* lines 237-238 and 308: anomaly.get raises on an entry that is no dict, in the loop of
\* detect_critical_anomalies or in the list built for the notification, before anything
\* is broadcast
inspection_raises(insights) ==
    \E i \in 1..Len(insights.anomalies) : ~insights.anomalies[i].dict

\* lines 302-314: what the handler broadcasts after the analysis, in order
inspector_broadcasts(insights) ==
    IF inspection_raises(insights) THEN <<>>
    ELSE anomaly_detected(insights) \o <<insights>>

\* the history entry of the insight call also keeps the answer of the LLM and what the
\* handler broadcast after it, in order
InsightCall(k, ok, answer, units) ==
    [agent |-> "quality_inspector", session_id |-> k.session_id, rnd |-> k.rnd,
     call |-> "analyze_data", ok |-> ok, answer |-> IF ok THEN answer ELSE None,
     broadcasts |-> units]

\* quality_inspector_handler 256-316, the LLM answering with one of answers or failing
inspect(d, answers) ==
    /\ d \in Inbox("quality_inspector")
    /\ LET k == d.knowledge IN
         IF Get(k.metadata, "is_rejected", FALSE) \/ "error" \in DOMAIN k.metadata
         THEN /\ Broadcast({d}, <<skipped_insights(k)>>)
              /\ UNCHANGED llm_log
         ELSE IF k.query_results = 0
         THEN /\ Broadcast({d}, <<analyze_data(k, EmptyBundle)>>)
              /\ UNCHANGED llm_log
         ELSE \E ok \in BOOLEAN, answer \in answers :
                /\ (~ok => answer = CHOOSE x \in answers : TRUE)
                /\ LET insights == analyze_data(k, parse_insights(ok, answer))
                       units == inspector_broadcasts(insights)
                   IN /\ Broadcast({d}, units)
                      /\ llm_log' = llm_log \cup {InsightCall(k, ok, answer, units)}
    /\ UNCHANGED <<chat_state, session_data, pending_responses, composing, svc_log, taken>>
    /\ UNCHANGED back_office

quality_inspector_handler(d) == inspect(d, LLMBundles)

(***************************************************************************)
(* report_writer.py                                                        *)
(***************************************************************************)
\* lines 356-372: create the accumulator if needed and store the unit by its type
store(data, k) ==
    LET s == k.session_id
        acc == IF s \in DOMAIN data THEN data[s] ELSE [chart |-> None, insights |-> None]
    IN Put(data, s,
           CASE k.type = "chart_ready" -> Put(acc, "chart", k.chart_spec)
             [] k.type = "insights_ready" ->
                    Put(Put(acc, "insights", k), "is_rejected", Get(k, "is_rejected", FALSE))
             [] OTHER -> acc)

\* lines 375-379
has_both(session) == session.chart # None /\ session.insights # None

\* lines 390-400
rejection_response(session, s, r) ==
    [type |-> "final_response_ready",
     narrative |-> [kind |-> "rejection",
                    reason |-> Get(session.insights, "rejection_reason", "Query out of scope")],
     chart_spec |-> None,
     follow_ups |-> <<"What's the average quality score by modality?",
                      "Show me the CAT rating distribution">>,
     session_id |-> s, rnd |-> r]

\* compose_narrative 89-130: the prompt reads chart_spec.get('data', {}).get('labels', []);
\* the "data" of a table specification is the list of rows, which has no get
prompt_raises(chart_spec) == Get(chart_spec, "data", "labels") = "rows"

\* the narrative text: who wrote it and the insight bundle it was written from
llm_narrative(insights) ==
    [kind |-> "llm", about |-> <<insights.session_id, insights.rnd>>]

\* _create_fallback_narrative 299-325
create_fallback_narrative(insights) ==
    [kind |-> "fallback", about |-> <<insights.session_id, insights.rnd>>,
     observations |-> SubSeq(insights.observations, 1, IF Len(insights.observations) < 3
                                                       THEN Len(insights.observations) ELSE 3)]

\* _generate_follow_ups 287-288 and 290-297
LLMFollowUps == <<"llm question 1", "llm question 2", "llm question 3">>

generate_follow_ups(ok) ==
    IF ok THEN LLMFollowUps
    ELSE <<"Compare quality scores between CT and MRI",
           "Show the CAT rating distribution",
           "How many male vs female patients?">>

\* compose_narrative 149-155
narrative_response(t, follow_ups) ==
    [type |-> "final_response_ready", narrative |-> t.narrative,
     chart_spec |-> t.chart_spec, follow_ups |-> follow_ups,
     session_id |-> t.session_id, rnd |-> t.rnd]

\* compose_narrative 157-168
fallback_response(t) ==
    [type |-> "final_response_ready", narrative |-> create_fallback_narrative(t.insights),
     chart_spec |-> t.chart_spec, follow_ups |-> <<>>,
     session_id |-> t.session_id, rnd |-> t.rnd]

\* compose_narrative 132-168 given how its two LLM calls end: the follow-up call is made
\* only after the narrative call has returned
compose_narrative(t, narrative_ok, follow_ups_ok) ==
    IF narrative_ok
    THEN narrative_response([t EXCEPT !.narrative = llm_narrative(t.insights)],
                            generate_follow_ups(follow_ups_ok))
    ELSE fallback_response(t)

\* lines 374-407: what an invocation does once it has stored its unit
decision(session) ==
    IF ~has_both(session) THEN "wait"
    ELSE IF Get(session, "is_rejected", FALSE) THEN "reject"
    ELSE IF prompt_raises(session.chart) THEN "raise"
    ELSE "compose"

\* lines 403-407: the invocation suspended in compose_narrative, holding the chart and
\* insights it read from the accumulator
task(session, s, r) ==
    [session_id |-> s, rnd |-> r, pc |-> "narrative",
     chart_spec |-> session.chart, insights |-> session.insights, narrative |-> None]

\* a composer that clears the whole accumulator when it finishes a session
finish_clearing(done, data, final_response) ==
    /\ pending_responses' = Put(pending_responses, final_response.session_id, final_response)
    /\ Broadcast(done, <<final_response>>)
    /\ session_data' = <<>>

\* a composer that leaves the accumulator of the session in place when it finishes
finish_without_cleanup(done, data, final_response) ==
    /\ pending_responses' = Put(pending_responses, final_response.session_id, final_response)
    /\ Broadcast(done, <<final_response>>)
    /\ session_data' = data

\* lines 409-420: mailbox write, broadcast, del _session_data[session_id] (a KeyError
\* of the del, when another invocation deleted the entry first, changes nothing more)
finish(done, data, final_response) ==
    /\ pending_responses' = Put(pending_responses, final_response.session_id, final_response)
    /\ Broadcast(done, <<final_response>>)
    /\ session_data' = Del(data, final_response.session_id)

\* lines 335-425 up to the first suspension: store, check, and either wait, answer a
\* rejected question at once, raise while building the prompt, or suspend at the
\* narrative LLM call
report_writer_handler(d) ==
    /\ d \in Inbox("report_writer")
    /\ LET k == d.knowledge
           s == k.session_id
           data == store(session_data, k)
           session == data[s]
       IN IF decision(session) = "reject"
          THEN /\ finish({d}, data, rejection_response(session, s, k.rnd))
               /\ UNCHANGED composing
          ELSE /\ session_data' = data
               /\ reef' = reef \ {d}
               /\ composing' = IF decision(session) = "compose"
                               THEN composing \cup {task(session, s, k.rnd)}
                               ELSE composing
               /\ UNCHANGED <<pending_responses, sent>>
    /\ UNCHANGED <<chat_state, llm_log, svc_log, taken>>
    /\ UNCHANGED back_office

\* compose_narrative 132-168: the narrative LLM call returns or raises
narrative_returns(t) ==
    /\ t \in composing
    /\ t.pc = "narrative"
    /\ \E ok \in BOOLEAN :
         /\ llm_log' = llm_log \cup {LLMCall("report_writer", t, "compose_narrative", ok)}
         /\ IF ok
            THEN /\ composing' = (composing \ {t}) \cup {[t EXCEPT !.pc = "follow_ups"]}
                 /\ UNCHANGED <<reef, sent, session_data, pending_responses>>
            ELSE /\ composing' = composing \ {t}
                 /\ finish({}, session_data, compose_narrative(t, FALSE, FALSE))
    /\ UNCHANGED <<chat_state, svc_log, taken>>
    /\ UNCHANGED back_office

\* _generate_follow_ups 278-297: the follow-up LLM call returns or raises
follow_ups_return(t) ==
    /\ t \in composing
    /\ t.pc = "follow_ups"
    /\ \E ok \in BOOLEAN :
         /\ llm_log' = llm_log \cup {LLMCall("report_writer", t, "_generate_follow_ups", ok)}
         /\ composing' = composing \ {t}
         /\ finish({}, session_data, compose_narrative(t, TRUE, ok))
    /\ UNCHANGED <<chat_state, svc_log, taken>>
    /\ UNCHANGED back_office

\* a storage agent that also drops the accumulator of the session it stores for
response_storage_handler_clearing(d) ==
    /\ d \in Inbox("response_storage")
    /\ pending_responses' = Put(pending_responses, d.knowledge.session_id, d.knowledge)
    /\ session_data' = Del(session_data, d.knowledge.session_id)
    /\ reef' = reef \ {d}
    /\ UNCHANGED <<chat_state, composing, sent, llm_log, svc_log, taken>>
    /\ UNCHANGED back_office

\* lines 33-47
response_storage_handler(d) ==
    /\ d \in Inbox("response_storage")
    /\ pending_responses' = Put(pending_responses, d.knowledge.session_id, d.knowledge)
    /\ reef' = reef \ {d}
    /\ UNCHANGED <<chat_state, session_data, composing, sent, llm_log, svc_log, taken>>
    /\ UNCHANGED back_office

(***************************************************************************)
(* app.py: chat() -- polling the mailbox                                   *)
(***************************************************************************)
\* lines 244-254: a poll that finds the session's entry removes and returns it
chat_take(s) ==
    /\ chat_state[s].pc = "polling"
    /\ s \in DOMAIN pending_responses
    /\ taken' = taken \cup {[session_id |-> s, call |-> chat_state[s].rnd,
                             response |-> pending_responses[s]]}
    /\ pending_responses' = Del(pending_responses, s)
    /\ chat_state' = [chat_state EXCEPT ![s].pc = "idle"]
    /\ UNCHANGED <<reef, session_data, composing, sent, llm_log, svc_log>>
    /\ UNCHANGED back_office

\* a caller that cancels what is scheduled for its session when it gives up
chat_timeout_cancelling(s) ==
    /\ chat_state[s].pc = "polling"
    /\ s \notin DOMAIN pending_responses
    /\ chat_state' = [chat_state EXCEPT ![s].pc = "idle"]
    /\ reef' = {d \in reef : d.knowledge.session_id # s}
    /\ UNCHANGED <<session_data, pending_responses, composing, sent, llm_log, svc_log, taken>>
    /\ UNCHANGED back_office

\* lines 244-274: the last poll of the window finds nothing; the call returns the
\* timeout message and nothing is cancelled
chat_timeout(s) ==
    /\ chat_state[s].pc = "polling"
    /\ s \notin DOMAIN pending_responses
    /\ chat_state' = [chat_state EXCEPT ![s].pc = "idle"]
    /\ UNCHANGED <<reef, session_data, pending_responses, composing, sent,
                   llm_log, svc_log, taken>>
    /\ UNCHANGED back_office

(***************************************************************************)
(* Specification                                                           *)
(***************************************************************************)
\* session_manager.py 12-15 and 68: the global instance starts with both maps empty;
\* the history starts at minute 0 with no call made
NoCall == [call |-> "none", session_id |-> "none", value |-> FALSE]

IdleManager ==
    /\ session_manager = [sessions |-> <<>>, session_timestamps |-> <<>>]
    /\ manager_history = [now |-> 0, added |-> <<>>, activity |-> <<>>, deleted |-> {},
                          returned |-> NoCall]

\* no sync is running; nothing is known of the sources or of the warehouse
IdleEL == el_pipeline = [pc |-> "idle"]

Init ==
    /\ chat_state = [s \in Sessions |-> [pc |-> "idle", rnd |-> 0]]
    /\ reef = {}
    /\ session_data = <<>>
    /\ pending_responses = <<>>
    /\ composing = {}
    /\ sent = EmptyBag
    /\ llm_log = {}
    /\ svc_log = EmptyBag
    /\ taken = {}
    /\ IdleManager
    /\ IdleEL

Next ==
    \/ \E s \in Sessions : chat_broadcast(s)
    \/ \E d \in reef : domain_expert_handler(d)
    \/ \E d \in reef : analytics_specialist_handler(d)
    \/ \E d \in reef : visualization_specialist_handler(d)
    \/ \E d \in reef : quality_inspector_handler(d)
    \/ \E d \in reef : report_writer_handler(d)
    \/ \E t \in composing : narrative_returns(t)
    \/ \E t \in composing : follow_ups_return(t)
    \/ \E d \in reef : response_storage_handler(d)
    \/ \E s \in Sessions : chat_take(s)
    \/ \E s \in Sessions : chat_timeout(s)

Spec == Init /\ [][Next]_vars

(***************************************************************************)
(* Derived notions used by the properties                                  *)
(***************************************************************************)
Published(type, s, r) == CopiesIn(<<type, s, r>>, sent)

\* the composer has taken the unit off the bus and run its store-then-check block on it
Handled(type, s, r) ==
    /\ Published(type, s, r) > 0
    /\ ~\E d \in Inbox("report_writer") : Label(d.knowledge) = <<type, s, r>>

\* the question rounds asked so far
Rounds == {<<s, r>> \in Sessions \X (1..MaxQueries) : r <= chat_state[s].rnd}

\* the rounds whose request the planner marked is_rejected, with the reason it gave
RejectedRounds ==
    {<<e.session_id, e.rnd, e.rejection_reason>> :
        e \in {x \in llm_log : x.agent = "domain_expert" /\ x.is_rejected}}

\* the LLM calls made for a round by an agent
Calls(agent, s, r) ==
    {e \in llm_log : e.agent = agent /\ e.session_id = s /\ e.rnd = r}

\* the calls of the query service made for a round
ServiceCalls(s, r) == {c \in BagToSet(svc_log) : c.session_id = s /\ c.rnd = r}

\* final responses that exist somewhere: on the bus, in the mailbox, or returned to a caller
FinalsOnBus == {d.knowledge : d \in Inbox("response_storage")}
FinalsInMailbox == {pending_responses[s] : s \in DOMAIN pending_responses}
FinalsTaken == {t.response : t \in taken}
Finals == FinalsOnBus \cup FinalsInMailbox \cup FinalsTaken

\* nothing is scheduled and no handler is suspended
Quiescent == reef = {} /\ composing = {}

(***************************************************************************)
(* C1: a final response is published in a question round only after the    *)
(* composer has handled both the chart_ready and the insights_ready of     *)
(* that round.                                                             *)
(***************************************************************************)
C1_ComposedOnlyAfterBothOfRound ==
    \A rd \in Rounds :
        Published("final_response_ready", rd[1], rd[2]) > 0 =>
            /\ Handled("chart_ready", rd[1], rd[2])
            /\ Handled("insights_ready", rd[1], rd[2])

(***************************************************************************)
(* C2: in every question round of every session the composer publishes     *)
(* final_response_ready at most once.                                      *)
(***************************************************************************)
C2_AtMostOneFinalPerRound ==
    \A rd \in Rounds : Published("final_response_ready", rd[1], rd[2]) <= 1

(***************************************************************************)
(* C3: the join is order-independent.  For a chart_ready and an            *)
(* insights_ready of one round that both wait at the composer, and for     *)
(* fixed outcomes of the composer's LLM calls, handling the chart first    *)
(* and handling the insights first end with the same final responses, the  *)
(* same accumulator and the same mailbox.                                  *)
(***************************************************************************)
\* the composer's state, and the final responses it has published since
ComposerState == [data |-> session_data, mailbox |-> pending_responses, finals |-> <<>>]

\* one invocation of report_writer_handler for unit k run to its end with nothing in
\* between, its LLM calls ending as given
Invocation(st, k, narrative_ok, follow_ups_ok) ==
    LET s == k.session_id
        data == store(st.data, k)
        session == data[s]
        response == IF decision(session) = "reject"
                    THEN rejection_response(session, s, k.rnd)
                    ELSE compose_narrative(task(session, s, k.rnd), narrative_ok, follow_ups_ok)
    IN IF decision(session) \in {"reject", "compose"}
       THEN [data |-> Del(data, s), mailbox |-> Put(st.mailbox, s, response),
             finals |-> Append(st.finals, response)]
       ELSE [data |-> data, mailbox |-> st.mailbox, finals |-> st.finals]

\* C3: both orders of handling the two units of a round end in the same composer state
C3_JoinOrderIndependent ==
    \A c, i \in Inbox("report_writer") :
        /\ c.knowledge.type = "chart_ready"
        /\ i.knowledge.type = "insights_ready"
        /\ c.knowledge.session_id = i.knowledge.session_id
        /\ c.knowledge.rnd = i.knowledge.rnd
        => \A n, f \in BOOLEAN :
              Invocation(Invocation(ComposerState, c.knowledge, n, f), i.knowledge, n, f)
                = Invocation(Invocation(ComposerState, i.knowledge, n, f), c.knowledge, n, f)

\* the same from a fresh accumulator, which is where the join of a round starts when no
\* earlier round of the session left anything behind
C3_FreshJoinOrderIndependent ==
    \A c, i \in Inbox("report_writer") :
        /\ c.knowledge.type = "chart_ready"
        /\ i.knowledge.type = "insights_ready"
        /\ c.knowledge.session_id = i.knowledge.session_id
        /\ c.knowledge.rnd = i.knowledge.rnd
        /\ c.knowledge.session_id \notin DOMAIN session_data
        => \A n, f \in BOOLEAN :
              Invocation(Invocation(ComposerState, c.knowledge, n, f), i.knowledge, n, f)
                = Invocation(Invocation(ComposerState, i.knowledge, n, f), c.knowledge, n, f)

(***************************************************************************)
(* C4: session isolation.  Every accumulator, every suspended composition  *)
(* and every final response of a session holds only charts and insights    *)
(* built from units of that session, and a step changes the accumulator    *)
(* or the mailbox entry of a session only if it is a step of that session: *)
(* the handling of one of its units, the return of one of its composer's   *)
(* LLM calls, or a poll of its caller.                                     *)
(***************************************************************************)
\* the session a chart specification or a narrative was built from
ChartOwner(chart_spec, s) == IF chart_spec = None THEN s ELSE chart_spec.of[1]
NarrativeOwner(narrative, s) == IF narrative.kind = "rejection" THEN s ELSE narrative.about[1]

OnlyOwnData ==
    /\ \A s \in DOMAIN session_data :
          /\ ChartOwner(session_data[s].chart, s) = s
          /\ session_data[s].insights # None => session_data[s].insights.session_id = s
    /\ \A t \in composing :
          /\ ChartOwner(t.chart_spec, t.session_id) = t.session_id
          /\ t.insights.session_id = t.session_id
    /\ \A f \in Finals :
          /\ ChartOwner(f.chart_spec, f.session_id) = f.session_id
          /\ NarrativeOwner(f.narrative, f.session_id) = f.session_id
    /\ \A s \in DOMAIN pending_responses : pending_responses[s].session_id = s

\* the sessions a step belongs to
StepSessions ==
    {d.knowledge.session_id : d \in reef \ reef'}
        \cup {t.session_id : t \in composing \ composing'}
        \cup {s \in Sessions : chat_state'[s] # chat_state[s]}

TouchesOnlyOwnSession ==
    \A s \in Sessions :
        \/ Get(session_data', s, None) # Get(session_data, s, None)
        \/ Get(pending_responses', s, None) # Get(pending_responses, s, None)
        => s \in StepSessions

\* C4: every step keeps sessions' data apart and touches only its own session
C4_SessionIsolation == [][OnlyOwnData' /\ TouchesOnlyOwnSession]_vars

\* chart_ready(s1) has been handled while the composition for s2 is suspended between
\* its store and its publication
C4_Witness ==
    /\ \E t \in composing : t.session_id = "s2"
    /\ "s1" \in DOMAIN session_data
    /\ session_data["s1"].chart # None

(***************************************************************************)
(* C5: every question is answered.  Once nothing is scheduled and no       *)
(* handler is suspended, so that no step of the pipeline remains to be     *)
(* taken, a final_response_ready has been published for every user_query   *)
(* that was published, whichever LLM calls and query-service calls failed. *)
(* (Every publication writes the mailbox entry in the same step.)          *)
(***************************************************************************)
C5_EveryQueryAnswered ==
    Quiescent =>
        \A rd \in Rounds :
            Published("user_query", rd[1], rd[2]) > 0 =>
                Published("final_response_ready", rd[1], rd[2]) > 0

(***************************************************************************)
(* C6: total LLM outage.  When every LLM call made so far has failed, a    *)
(* final response of a question that was not rejected has the templated    *)
(* fallback narrative and the three fixed follow-up questions.             *)
(***************************************************************************)
C6_OutageKeepsFixedFollowUps ==
    (\A e \in llm_log : ~e.ok) =>
        \A f \in Finals :
            f.narrative.kind # "rejection" =>
                /\ f.narrative.kind = "fallback"
                /\ f.follow_ups = generate_follow_ups(FALSE)

(***************************************************************************)
(* C7: the composer's two LLM calls fall back independently.  A final      *)
(* response composed on the narrative path has the LLM narrative or the    *)
(* templated one according to the outcome of the narrative call, and has   *)
(* the LLM's follow-up questions or the fixed list according to the        *)
(* outcome of a follow-up call that is made whatever the narrative call    *)
(* did.                                                                    *)
(***************************************************************************)
C7_IndependentFallbacks ==
    \A f \in Finals :
        f.narrative.kind # "rejection" =>
            LET calls == Calls("report_writer", f.session_id, f.rnd)
                narrative_oks == {e.ok : e \in {x \in calls : x.call = "compose_narrative"}}
                follow_up_oks == {e.ok : e \in {x \in calls : x.call = "_generate_follow_ups"}}
            IN /\ f.narrative.kind = "llm" => TRUE \in narrative_oks
               /\ f.narrative.kind = "fallback" => FALSE \in narrative_oks
               /\ \/ f.follow_ups = generate_follow_ups(TRUE) /\ TRUE \in follow_up_oks
                  \/ f.follow_ups = generate_follow_ups(FALSE) /\ FALSE \in follow_up_oks

(***************************************************************************)
(* C8: a rejected question.  For every round whose request the planner     *)
(* marked is_rejected: the chart selector, the insight generator and the   *)
(* composer make no LLM call for it; its chart_ready carries an empty      *)
(* chart; its insights_ready carries three empty lists and is_rejected;    *)
(* and its final response is the rejection narrative with the planner's    *)
(* reason, no chart_spec and the two canned follow-up suggestions.         *)
(***************************************************************************)
C8_RejectedQuestion ==
    \A rd \in RejectedRounds :
        /\ \A agent \in {"visualization_specialist", "quality_inspector", "report_writer"} :
              Calls(agent, rd[1], rd[2]) = {}
        /\ \A d \in Inbox("report_writer") :
              /\ Label(d.knowledge) = <<"chart_ready", rd[1], rd[2]>> =>
                    d.knowledge.chart_spec.type = "empty"
              /\ Label(d.knowledge) = <<"insights_ready", rd[1], rd[2]>> =>
                    /\ d.knowledge.observations = <<>>
                    /\ d.knowledge.anomalies = <<>>
                    /\ d.knowledge.root_causes = <<>>
                    /\ Get(d.knowledge, "is_rejected", FALSE)
        /\ \A f \in Finals :
              Label(f) = <<"final_response_ready", rd[1], rd[2]>> =>
                  /\ f.narrative = [kind |-> "rejection", reason |-> rd[3]]
                  /\ f.chart_spec = None
                  /\ f.follow_ups = <<"What's the average quality score by modality?",
                                      "Show me the CAT rating distribution">>

(***************************************************************************)
(* C9: a rejected request short-circuits query execution.  For every round *)
(* whose request the planner marked is_rejected the query service is never *)
(* called; once the request has been handled exactly one data_ready has    *)
(* been published for the round, and none before; and that data_ready has  *)
(* zero rows, row_count 0 and metadata is_rejected with the planner's      *)
(* reason.                                                                 *)
(***************************************************************************)
C9_RejectedShortCircuitsQuery ==
    \A rd \in RejectedRounds :
        /\ ServiceCalls(rd[1], rd[2]) = {}
        /\ Published("data_ready", rd[1], rd[2]) =
              IF \E d \in Inbox("analytics_specialist") :
                     d.knowledge.session_id = rd[1] /\ d.knowledge.rnd = rd[2]
              THEN 0 ELSE 1
        /\ \A d \in reef :
              Label(d.knowledge) = <<"data_ready", rd[1], rd[2]>> =>
                  /\ d.knowledge.query_results = 0
                  /\ d.knowledge.row_count = 0
                  /\ Get(d.knowledge.metadata, "is_rejected", FALSE)
                  /\ Get(d.knowledge.metadata, "rejection_reason", NoReason) = rd[3]

\* the placeholder of a rejected request is on the bus, and no query was made for it
C9_Witness ==
    \E rd \in RejectedRounds :
        /\ \E d \in reef : Label(d.knowledge) = <<"data_ready", rd[1], rd[2]>>
        /\ Published("data_ready", rd[1], rd[2]) = 1
        /\ svc_log = EmptyBag

(***************************************************************************)
(* C10: mailbox exactly-once consumption.  The final responses composed in *)
(* a round are returned by at most as many takes as were composed, and a   *)
(* response that a take has returned is not in the mailbox again.          *)
(***************************************************************************)
C10_MailboxExactlyOnce ==
    /\ \A rd \in Rounds :
          Cardinality({t \in taken : t.response.session_id = rd[1] /\ t.response.rnd = rd[2]})
              <= Published("final_response_ready", rd[1], rd[2])
    /\ \A rd \in Rounds :
          Published("final_response_ready", rd[1], rd[2]) <= 1 =>
              \A s \in DOMAIN pending_responses :
                  pending_responses[s].session_id = rd[1] /\ pending_responses[s].rnd = rd[2]
                      => pending_responses[s] \notin FinalsTaken

(***************************************************************************)
(* C11: accumulator lifetime.  An accumulator entry exists only for a      *)
(* session of which a chart_ready or insights_ready has been handled, and  *)
(* once nothing is scheduled and no handler is suspended no entry holds    *)
(* both a chart and insights: an entry that received both units was        *)
(* deleted when the joined response was produced.                          *)
(***************************************************************************)
C11_AccumulatorLifetime ==
    /\ \A s \in DOMAIN session_data :
          \E r \in 1..chat_state[s].rnd :
              Handled("chart_ready", s, r) \/ Handled("insights_ready", s, r)
    /\ Quiescent => \A s \in DOMAIN session_data : ~has_both(session_data[s])

(***************************************************************************)
(* C15: a request that is not rejected.  The query service is called at    *)
(* most once for it; no data_ready is published before the handler has     *)
(* run and exactly one afterwards; that data_ready carries the returned    *)
(* rows and shape metadata when the call returned, and zero rows,          *)
(* row_count 0 and metadata with error and error_type when the call        *)
(* raised, whatever the class of the exception.                            *)
(***************************************************************************)
\* the rounds whose request the planner did not mark is_rejected
AcceptedRounds ==
    {<<e.session_id, e.rnd>> :
        e \in {x \in llm_log : x.agent = "domain_expert" /\ ~x.is_rejected}}

\* how often the query service was called for a round
ServiceCallCount(s, r) ==
    CopiesIn([session_id |-> s, rnd |-> r, raised |-> FALSE], svc_log)
        + CopiesIn([session_id |-> s, rnd |-> r, raised |-> TRUE], svc_log)

C15_OneDataReadyPerRequest ==
    \A rd \in AcceptedRounds :
        LET waiting == \E d \in Inbox("analytics_specialist") :
                           d.knowledge.session_id = rd[1] /\ d.knowledge.rnd = rd[2]
        IN /\ ServiceCallCount(rd[1], rd[2]) <= 1
           /\ Published("data_ready", rd[1], rd[2]) = IF waiting THEN 0 ELSE 1
           /\ \A d \in reef :
                 Label(d.knowledge) = <<"data_ready", rd[1], rd[2]>> =>
                     LET k == d.knowledge IN
                     IF \E c \in ServiceCalls(rd[1], rd[2]) : c.raised
                     THEN /\ k.query_results = 0
                          /\ k.row_count = 0
                          /\ {"error", "error_type"} \subseteq DOMAIN k.metadata
                     ELSE /\ k.query_results \in RowCounts
                          /\ k.row_count = k.query_results
                          /\ {"data_shape", "row_count"} \subseteq DOMAIN k.metadata
                          /\ k.metadata.row_count = k.row_count
                          /\ "error" \notin DOMAIN k.metadata

\* the query raised and the error placeholder of the request is on the bus
C15_Witness ==
    \E rd \in AcceptedRounds :
        /\ \E c \in ServiceCalls(rd[1], rd[2]) : c.raised
        /\ \E d \in reef :
              /\ Label(d.knowledge) = <<"data_ready", rd[1], rd[2]>>
              /\ d.knowledge.metadata.error_type = "connection_error"

(***************************************************************************)
(* The planner on its own: one user_query, and every answer the LLM may    *)
(* give over a small vocabulary of canonical, alias and unknown names      *)
(***************************************************************************)
\* longest list of names in an answer
MaxNames == 2

\* names the LLM may return: canonical ones, aliases, and one neither table knows
RawMetricNames == {"count", "avgAge", "quality", "bogus"}
RawDimensionNames == {"modality", "cat", "bogus"}

SeqsUpTo(S, n) == UNION {[1..k -> S] : k \in 0..n}

\* answers with both lists, without a "metrics" entry, with "metrics": null, and a rejection
LLMAnswers ==
    {[is_rejected |-> FALSE, rejection_reason |-> NoReason, metrics |-> m, dimensions |-> dd] :
        m \in SeqsUpTo(RawMetricNames, MaxNames), dd \in SeqsUpTo(RawDimensionNames, MaxNames)}
    \cup {[is_rejected |-> FALSE, rejection_reason |-> NoReason, dimensions |-> dd] :
        dd \in SeqsUpTo(RawDimensionNames, MaxNames)}
    \cup {[is_rejected |-> FALSE, rejection_reason |-> NoReason, null |-> {"metrics"},
           dimensions |-> dd] : dd \in SeqsUpTo(RawDimensionNames, MaxNames)}
    \cup {[is_rejected |-> TRUE, rejection_reason |-> "out of scope",
           metrics |-> <<>>, dimensions |-> <<>>]}

InitPlanner ==
    /\ chat_state = [s \in Sessions |->
                        IF s = "s1" THEN [pc |-> "polling", rnd |-> 1] ELSE [pc |-> "idle", rnd |-> 0]]
    /\ reef = Deliveries(user_query("s1", 1))
    /\ session_data = <<>>
    /\ pending_responses = <<>>
    /\ composing = {}
    /\ sent = SetToBag({Label(user_query("s1", 1))})
    /\ llm_log = {}
    /\ svc_log = EmptyBag
    /\ taken = {}
    /\ IdleManager
    /\ IdleEL

NextPlanner == \E d \in reef : plan(d, LLMAnswers)

SpecPlanner == InitPlanner /\ [][NextPlanner]_vars

\* the published requests, each with the history entry of the call that produced it
PlannedRequests ==
    {<<e, d.knowledge>> : e \in {x \in llm_log : x.agent = "domain_expert"},
                          d \in Inbox("analytics_specialist")}

\* the call returned an answer that the planner could process
Processed(e) == e.ok /\ ~answer_raises(e.answer)

(***************************************************************************)
(* C12: the metrics list of every published domain_enriched_request is     *)
(* non-empty, whatever the LLM answered and when its call failed.          *)
(***************************************************************************)
C12_MetricsNeverEmpty ==
    \A d \in Inbox("analytics_specialist") : d.knowledge.metrics # <<>>

\* a request was published from an answer whose metric list was empty
C12_Witness ==
    \E p \in PlannedRequests :
        /\ Processed(p[1])
        /\ "metrics" \in DOMAIN p[1].answer
        /\ p[1].answer.metrics = <<>>
        /\ ~p[2].is_rejected

(***************************************************************************)
(* C13: every metric and every dimension of a published request is         *)
(* canonical; every alias-table target is canonical; and a published name  *)
(* is a returned name that is canonical, the alias-table target of a       *)
(* returned name, or the record-count metric.                              *)
(***************************************************************************)
C13_OnlyCanonicalNames ==
    /\ \A a \in DOMAIN dimension_aliases : dimension_aliases[a] \in valid_dimensions
    /\ \A a \in DOMAIN metric_aliases : metric_aliases[a] \in valid_metrics
    /\ \A d \in Inbox("analytics_specialist") :
          /\ Names(d.knowledge.metrics) \subseteq valid_metrics
          /\ Names(d.knowledge.dimensions) \subseteq valid_dimensions
    /\ \A p \in PlannedRequests :
          Processed(p[1]) =>
              LET raw_dimensions == Names(Get(p[1].answer, "dimensions", <<>>))
                  raw_metrics == Names(Get(p[1].answer, "metrics", <<"count">>))
              IN /\ \A x \in Names(p[2].dimensions) :
                        \/ x \in raw_dimensions
                        \/ \E a \in raw_dimensions \cap DOMAIN dimension_aliases :
                               dimension_aliases[a] = x
                 /\ \A x \in Names(p[2].metrics) :
                        \/ x \in raw_metrics
                        \/ \E a \in raw_metrics \cap DOMAIN metric_aliases : metric_aliases[a] = x
                        \/ x = "count"

\* a request was published from an answer that named an alias and an unknown dimension
C13_Witness ==
    \E p \in PlannedRequests :
        /\ Processed(p[1])
        /\ p[1].answer.dimensions = <<"cat", "bogus">>
        /\ p[2].dimensions = <<"finalOutput">>

(***************************************************************************)
(* C14: unknown names are dropped.  The published dimensions are exactly   *)
(* the resolved names in their original order, and so are the published    *)
(* metrics, except that the record-count metric alone is published when    *)
(* no returned metric resolves.                                            *)
(***************************************************************************)
\* the names of a list that resolve, resolved, in their order
RECURSIVE ResolvedNames(_, _, _)
ResolvedNames(raw, valid, aliases) ==
    IF raw = <<>> THEN <<>>
    ELSE resolve(Head(raw), valid, aliases) \o ResolvedNames(Tail(raw), valid, aliases)

C14_UnknownNamesDropped ==
    \A p \in PlannedRequests :
        Processed(p[1]) =>
            LET dimensions == ResolvedNames(Get(p[1].answer, "dimensions", <<>>),
                                            valid_dimensions, dimension_aliases)
                metrics == ResolvedNames(Get(p[1].answer, "metrics", <<"count">>),
                                         valid_metrics, metric_aliases)
            IN /\ p[2].dimensions = dimensions
               /\ p[2].metrics = IF metrics = <<>> THEN <<"count">> ELSE metrics

(***************************************************************************)
(* Chart selection and chart building on result rows                       *)
(* (visualization_specialist.py).  A result row is a dict: the list of its *)
(* columns in key order, each with its key and its value.  A column also   *)
(* says which member of the query it holds (x the first dimension, g the   *)
(* second, y the first measure), which no builder reads.  A string is a    *)
(* code whose order is the order of the strings; a color is the position   *)
(* it has in the 12-color list of the builder.                             *)
(***************************************************************************)
\* longest result set
MaxRows == 13

\* longest result set whose rows are chosen freely
MaxShortRows == 2

\* length of the color lists of lines 214-227, 319-332 and 410-423
PaletteSize == 12

\* strings, in their order: "", then "0" .. "9", then "None", then other text (1, 2, ...)
EmptyString == 0 - 20
NumericText(n) == n - 10
NoneString == 0

\* Python values: None, a number (0 .. 9 where str() is taken of it), a string
NullValue == [t |-> "null", v |-> 0]
Number(n) == [t |-> "num", v |-> n]
String(code) == [t |-> "str", v |-> code]

\* str(value)
str(value) ==
    CASE value.t = "str" -> value.v
      [] value.t = "num" -> NumericText(value.v)
      [] OTHER -> NoneString

\* a coercion that parses no string
to_number_without_parsing(value) ==
    CASE value.t = "num" -> value.v
      [] OTHER -> 0

\* _to_number 599-610: None, and a string float() cannot parse, are 0
to_number(value) ==
    CASE value.t = "num" -> value.v
      [] value.t = "str" /\ value.v \in NumericText(0)..NumericText(9) -> value.v + 10
      [] OTHER -> 0

\* the rows the query service returns, by member
ShortRows == [x : {String(1), String(2)}, g : {String(1), String(2)}, y : {Number(5)}]

\* a longer result set: x cycles over three values, g alternates every three rows
LongRows(n) ==
    [i \in 1..n |-> [x |-> String(((i - 1) % 3) + 1), g |-> String((((i - 1) \div 3) % 2) + 1),
                     y |-> Number(i)]]

ResultSets ==
    SeqsUpTo(ShortRows, MaxShortRows) \cup {LongRows(n) : n \in (MaxShortRows + 1)..MaxRows}

\* rows whose measure is a number, a number as text, text that is no number, or null
TypedRows ==
    [x : {String(1), String(2)}, g : {String(1), String(2)},
     y : {Number(5), String(NumericText(7)), String(3), NullValue}]

TypedResultSets == SeqsUpTo(TypedRows, MaxShortRows) \ {<<>>}

\* how the keys of a row relate to the names of the query: the qualified names, the
\* short names, or other names with the dimensions or with the measure first
KeyShapes == {"qualified", "short", "other", "other_measure_first"}

\* analytics_specialist.py 21-24, 63-86 (METRIC_MAPPING, DIMENSION_MAPPING)
QualifiedNames ==
    ("count" :> "RadiologyAudits.count") @@ ("modality" :> "RadiologyAudits.modality")
    @@ ("gender" :> "RadiologyAudits.gender")

\* name.split(".")[-1] of the names with a dot
ShortNames ==
    ("RadiologyAudits.count" :> "count") @@ ("RadiologyAudits.modality" :> "modality")
    @@ ("RadiologyAudits.gender" :> "gender")

OtherNames ==
    ("RadiologyAudits.count" :> "value") @@ ("RadiologyAudits.modality" :> "category")
    @@ ("RadiologyAudits.gender" :> "series")

\* build_cube_query 147-169: the names of the request mapped to members of the cube
build_cube_query(k) ==
    [k EXCEPT !.metrics = [i \in 1..Len(k.metrics) |-> QualifiedNames[k.metrics[i]]],
              !.dimensions = [i \in 1..Len(k.dimensions) |-> QualifiedNames[k.dimensions[i]]]]

\* the dict of a row returned for the query: one column per dimension and one for the
\* measure
keyed(shape, query, row) ==
    LET key(name) == CASE shape = "qualified" -> name
                       [] shape = "short" -> ShortNames[name]
                       [] OTHER -> OtherNames[name]
        members == <<"x", "g">>
        dims == [i \in 1..Len(query.dimensions) |->
                    [key |-> key(query.dimensions[i]), value |-> row[members[i]],
                     member |-> members[i]]]
        meas == <<[key |-> key(query.metrics[1]), value |-> row.y, member |-> "y"]>>
    IN IF shape = "other_measure_first" THEN meas \o dims ELSE dims \o meas

keyed_rows(shape, query, rows) == [i \in 1..Len(rows) |-> keyed(shape, query, rows[i])]

\* key in row
has_key(row, key) == \E i \in 1..Len(row) : row[i].key = key

\* row.get(key, default)
row_get(row, key, default) ==
    IF has_key(row, key) THEN row[CHOOSE i \in 1..Len(row) : row[i].key = key].value
    ELSE default

\* the first key of the row whose value is of type t, else the first key, else ""
first_key_of_type(row, t) ==
    LET typed == {i \in 1..Len(row) : row[i].value.t = t}
    IN IF typed # {} THEN row[CHOOSE i \in typed : \A j \in typed : i <= j].key
       ELSE IF row # <<>> THEN row[1].key
       ELSE ""

\* a lookup that knows the qualified name only
get_key_by_full_name(row, name, t) ==
    IF has_key(row, name) THEN name ELSE first_key_of_type(row, t)

\* _get_dimension_key 530-547 (t = "str") and _get_measure_key 549-566 (t = "num")
get_key(row, name, t) ==
    IF has_key(row, name) THEN name
    ELSE IF name \in DOMAIN ShortNames /\ has_key(row, ShortNames[name]) THEN ShortNames[name]
    ELSE first_key_of_type(row, t)

get_dimension_key(row, dimension) == get_key(row, dimension, "str")

get_measure_key(row, measure) == get_key(row, measure, "num")

Min(a, b) == IF a <= b THEN a ELSE b

\* a list left in the order it came in
unsorted(list) == list

\* sorted(list)
sorted(list) == SortSeq(list, LAMBDA a, b : a < b)

\* the keys of a dict filled in the order of list
RECURSIVE insertion_order(_, _)
insertion_order(list, keys) ==
    IF list = <<>> THEN keys
    ELSE insertion_order(Tail(list),
             IF Head(list) \in Names(keys) THEN keys ELSE Append(keys, Head(list)))

\* the orders in which iterating over a set may yield its elements
Iterations(S) == {f \in [1..Cardinality(S) -> S] : {f[i] : i \in 1..Cardinality(S)} = S}

\* labels that name each value of the dimension once
distinct_labels_of(data, x_key) ==
    insertion_order([i \in 1..Len(data) |-> str(row_get(data[i], x_key, String(EmptyString)))],
                    <<>>)

\* lines 315-316 (also 210-211, 485-486)
labels_of(data, x_key) ==
    [i \in 1..Len(data) |-> str(row_get(data[i], x_key, String(EmptyString)))]

values_of(data, y_key) == [i \in 1..Len(data) |-> to_number(row_get(data[i], y_key, NullValue))]

\* a donut whose colors repeat after the end of the list
repeating_donut_colors(values) == [i \in 1..Len(values) |-> (i - 1) % PaletteSize]

\* line 236: colors[:len(values)]
donut_colors(values) == [i \in 1..Min(Len(values), PaletteSize) |-> i - 1]

\* line 335: [bar_colors[i % len(bar_colors)] for i in range(len(values))]
colors_for_bars(values) == [i \in 1..Len(values) |-> (i - 1) % PaletteSize]

\* lines 255-271
generate_kpi_card(data, measures) ==
    IF data = <<>> THEN [type |-> "empty", message |-> "No data"]
    ELSE LET first_measure == IF measures # <<>> THEN measures[1] ELSE ""
             measure_key == get_measure_key(data[1], first_measure)
         IN [type |-> "kpi", value |-> row_get(data[1], measure_key, Number(0))]

\* lines 273-303
generate_table(data, dimensions, measures) ==
    IF data = <<>> THEN [type |-> "empty", message |-> "No data"]
    ELSE [type |-> "table",
          columns |-> [i \in 1..Len(dimensions) |-> get_dimension_key(data[1], dimensions[i])]
                      \o [i \in 1..Len(measures) |-> get_measure_key(data[1], measures[i])],
          data |-> data]

\* lines 305-377
generate_bar_chart(data, dimensions, measures) ==
    IF data = <<>> \/ dimensions = <<>> \/ measures = <<>>
    THEN [type |-> "empty", message |-> "Insufficient data"]
    ELSE LET x_key == get_dimension_key(data[1], dimensions[1])
             y_key == get_measure_key(data[1], measures[1])
             values == values_of(data, y_key)
         IN [type |-> "bar", labels |-> labels_of(data, x_key),
             datasets |-> <<[data |-> values, backgroundColor |-> colors_for_bars(values)]>>]

\* lines 200-253
generate_donut_chart(data, dimensions, measures) ==
    IF data = <<>> \/ dimensions = <<>> \/ measures = <<>>
    THEN [type |-> "empty", message |-> "Insufficient data"]
    ELSE LET label_key == get_dimension_key(data[1], dimensions[1])
             value_key == get_measure_key(data[1], measures[1])
             values == values_of(data, value_key)
         IN [type |-> "donut", labels |-> labels_of(data, label_key),
             datasets |-> <<[data |-> values, backgroundColor |-> donut_colors(values)]>>]

\* lines 475-528
generate_line_chart(data, dimensions, measures) ==
    IF data = <<>> \/ dimensions = <<>> \/ measures = <<>>
    THEN [type |-> "empty", message |-> "Insufficient data"]
    ELSE LET x_key == get_dimension_key(data[1], dimensions[1])
             y_key == get_measure_key(data[1], measures[1])
         IN [type |-> "line", labels |-> labels_of(data, x_key),
             datasets |-> <<[data |-> values_of(data, y_key)]>>]

\* line 390: the set the loop of 391-398 adds the group values to
group_names(data, group_key) ==
    {str(row_get(data[i], group_key, String(EmptyString))) : i \in 1..Len(data)}

\* the set a run of the builder iterates over, if it gets that far
iterated_names(data, dimensions, measures, chart_type) ==
    IF chart_type = "grouped_bar" /\ data # <<>> /\ Len(dimensions) >= 2 /\ measures # <<>>
    THEN group_names(data, get_dimension_key(data[1], dimensions[2]))
    ELSE {}

\* lines 391-397 and 430: grouped_data[label][group_name] is the value of the last row
\* with that pair, and _to_number makes 0 of a pair no row has
grouped_value(data, x_key, group_key, y_key, label, group_name) ==
    LET rows == {i \in 1..Len(data) :
                    /\ str(row_get(data[i], x_key, String(EmptyString))) = label
                    /\ str(row_get(data[i], group_key, String(EmptyString))) = group_name}
    IN IF rows = {} THEN to_number(NullValue)
       ELSE to_number(Number(to_number(
                row_get(data[CHOOSE i \in rows : \A j \in rows : j <= i], y_key, NullValue))))

\* lines 379-473; iteration is the order in which iterating over group_names yields
\* its elements
generate_grouped_bar_chart(data, dimensions, measures, iteration) ==
    IF data = <<>> \/ Len(dimensions) < 2 \/ measures = <<>>
    THEN generate_bar_chart(data, dimensions, measures)
    ELSE LET x_key == get_dimension_key(data[1], dimensions[1])
             group_key == get_dimension_key(data[1], dimensions[2])
             y_key == get_measure_key(data[1], measures[1])
             labels == sorted(insertion_order(labels_of(data, x_key), <<>>))
             group_names_list == sorted(iteration)
         IN [type |-> "bar", labels |-> labels,
             datasets |-> [i \in 1..Len(group_names_list) |->
                 [label |-> group_names_list[i],
                  data |-> [j \in 1..Len(labels) |->
                               grouped_value(data, x_key, group_key, y_key,
                                             labels[j], group_names_list[i])],
                  backgroundColor |-> (i - 1) % PaletteSize]]]

\* a dispatcher that labels the table it builds for an unknown archetype with the
\* name it was asked for
generate_chart_spec_named(data, measures, dimensions, chart_type, iteration) ==
    CASE chart_type = "empty" ->
             [type |-> "empty", message |-> "No data available for this query"]
      [] chart_type = "kpi" -> generate_kpi_card(data, measures)
      [] chart_type = "table" -> generate_table(data, dimensions, measures)
      [] chart_type = "bar" -> generate_bar_chart(data, dimensions, measures)
      [] chart_type = "grouped_bar" ->
             generate_grouped_bar_chart(data, dimensions, measures, iteration)
      [] chart_type = "line" -> generate_line_chart(data, dimensions, measures)
      [] chart_type = "donut" -> generate_donut_chart(data, dimensions, measures)
      [] OTHER -> [generate_table(data, dimensions, measures) EXCEPT !.type = chart_type]

\* generate_chart_spec 152-198 on result rows
generate_chart_spec_rows(data, measures, dimensions, chart_type, iteration) ==
    CASE chart_type = "empty" ->
             [type |-> "empty", message |-> "No data available for this query"]
      [] chart_type = "kpi" -> generate_kpi_card(data, measures)
      [] chart_type = "table" -> generate_table(data, dimensions, measures)
      [] chart_type = "bar" -> generate_bar_chart(data, dimensions, measures)
      [] chart_type = "grouped_bar" ->
             generate_grouped_bar_chart(data, dimensions, measures, iteration)
      [] chart_type = "line" -> generate_line_chart(data, dimensions, measures)
      [] chart_type = "donut" -> generate_donut_chart(data, dimensions, measures)
      [] OTHER -> generate_table(data, dimensions, measures)

\* what the chart-selection LLM may answer with: the archetypes and a name that is none
ChartTypeAnswers == {"empty", "kpi", "table", "bar", "grouped_bar", "line", "donut", "heatmap"}

\* determine_chart_type 35-115: ok and answer are the outcome of the LLM call, if made
determine_chart_type(metadata, ok, answer) ==
    IF ~needs_chart_llm(metadata) THEN "empty"
    ELSE IF ok THEN answer
    ELSE fallback_chart_type(Get(metadata, "row_count", 0))

\* visualization_specialist_handler 638-714 on a data_ready whose query_results are rows
render(d) ==
    /\ d \in Inbox("visualization_specialist")
    /\ LET k == d.knowledge IN
         \E ok \in BOOLEAN, answer \in ChartTypeAnswers :
           /\ LET chart_type == determine_chart_type(k.metadata, ok, answer) IN
                \E iteration \in Iterations(iterated_names(k.query_results, k.dimensions,
                                                           k.measures, chart_type)) :
                  Broadcast({d}, <<[type |-> "chart_ready", chart_type |-> chart_type,
                                    chart_spec |-> generate_chart_spec_rows(k.query_results,
                                        k.measures, k.dimensions, chart_type, iteration),
                                    session_id |-> k.session_id, rnd |-> k.rnd]>>)
           /\ llm_log' = IF needs_chart_llm(k.metadata)
                         THEN llm_log \cup {LLMCall("visualization_specialist", k,
                                                    "determine_chart_type", ok)}
                         ELSE llm_log
    /\ UNCHANGED <<chat_state, session_data, pending_responses, composing, svc_log, taken>>
    /\ UNCHANGED back_office

\* the requests of the round the charts are built for
ChartRequests ==
    {[type |-> "domain_enriched_request", is_rejected |-> FALSE, rejection_reason |-> NoReason,
      metrics |-> <<"count">>, dimensions |-> dd, session_id |-> "s1", rnd |-> 1] :
        dd \in {<<>>, <<"modality">>, <<"modality", "gender">>}}

RejectedChartRequest ==
    [type |-> "domain_enriched_request", is_rejected |-> TRUE,
     rejection_reason |-> "out of scope", metrics |-> <<"count">>, dimensions |-> <<>>,
     session_id |-> "s1", rnd |-> 1]

\* a data_ready with its result rows in place of their number
with_rows(unit, rows) == [unit EXCEPT !.query_results = rows]

\* the history entry of a call of the query service that also keeps the data_ready
\* published for it
ServiceResult(k, outcome, unit) ==
    [session_id |-> k.session_id, rnd |-> k.rnd, raised |-> outcome # "ok", published |-> unit]

\* what analytics_specialist_handler publishes for request k when the query service
\* returns rows keyed in the given shape
rows_data_ready(k, shape, rows) ==
    LET query == build_cube_query(k)
    IN with_rows(execute_query(query, Len(rows)), keyed_rows(shape, query, rows))

\* the placeholders it may publish for the round, with the call of the query service made
Placeholders ==
    {[unit |-> with_rows(error_data_ready(k, error_type_of(outcome)), <<>>),
      calls |-> {ServiceResult(k, outcome,
                    with_rows(error_data_ready(k, error_type_of(outcome)), <<>>))}] :
        k \in ChartRequests, outcome \in ServiceOutcomes \ {"ok"}}
    \cup {[unit |-> with_rows(rejected_data_ready(RejectedChartRequest), <<>>), calls |-> {}]}

\* what it may have published for the request of the round: result sets of every length,
\* keyed by the qualified names as the query service keys them, or a placeholder
ChartCases ==
    {[unit |-> rows_data_ready(k, "qualified", rows),
      calls |-> {ServiceResult(k, "ok", rows_data_ready(k, "qualified", rows))}] :
        k \in ChartRequests, rows \in ResultSets}
    \cup Placeholders

\* short result sets in every shape of keys and with every type of measure value
RowCases ==
    {[unit |-> rows_data_ready(k, shape, rows),
      calls |-> {ServiceResult(k, "ok", rows_data_ready(k, shape, rows))}] :
        k \in ChartRequests, shape \in KeyShapes, rows \in TypedResultSets}

\* the round of session s1 after analytics_specialist_handler has published its data_ready
InitWith(cases) ==
    /\ chat_state = [s \in Sessions |->
                        IF s = "s1" THEN [pc |-> "polling", rnd |-> 1] ELSE [pc |-> "idle", rnd |-> 0]]
    /\ \E c \in cases :
         /\ reef = Deliveries(c.unit)
         /\ svc_log = SetToBag(c.calls)
         /\ sent = SetToBag({Label(user_query("s1", 1)), Label(RejectedChartRequest),
                             Label(c.unit)})
    /\ session_data = <<>>
    /\ pending_responses = <<>>
    /\ composing = {}
    /\ llm_log = {}
    /\ taken = {}
    /\ IdleManager
    /\ IdleEL

InitChart == InitWith(ChartCases)

InitRows == InitWith(RowCases)

NextChart == \E d \in reef : render(d)

SpecChart == InitChart /\ [][NextChart]_vars

SpecRows == InitRows /\ [][NextChart]_vars

\* the chart_ready units published and not yet joined
ChartsReady == {d.knowledge : d \in Inbox("report_writer")}

\* the data_ready the chart of a round was built from: the one published for the call of
\* the query service, or the placeholder of a rejected request, for which no call is made
DataReadyOf(c) ==
    LET calls == {e \in BagToSet(svc_log) : e.session_id = c.session_id /\ e.rnd = c.rnd}
    IN IF calls = {} THEN with_rows(rejected_data_ready(RejectedChartRequest), <<>>)
       ELSE (CHOOSE e \in calls : TRUE).published

\* the chart-selection LLM calls made for the round of a chart
ChartCalls(c) == Calls("visualization_specialist", c.session_id, c.rnd)

(***************************************************************************)
(* C16.  For every result set with zero rows (a successful empty result,   *)
(* the placeholder of a rejected request, the placeholder of a failed      *)
(* query) the archetype selected is empty, the chart specification built   *)
(* has type empty, and no chart-selection LLM call is made.                *)
(***************************************************************************)
C16_ZeroRowsEmptyWithoutLLM ==
    \A c \in ChartsReady :
        DataReadyOf(c).query_results = <<>> =>
            /\ c.chart_type = "empty"
            /\ c.chart_spec.type = "empty"
            /\ ChartCalls(c) = {}

\* the chart of a successful empty result has been built
C16_Witness ==
    \E c \in ChartsReady :
        /\ DataReadyOf(c).query_results = <<>>
        /\ DataReadyOf(c).cube_used = "RadiologyAudits"
        /\ c.chart_type = "empty"

(***************************************************************************)
(* C17.  When the chart-selection LLM call fails for a result set of       *)
(* row_count >= 1, the archetype selected is kpi for one row, bar for two  *)
(* to ten rows and table for more than ten rows.                           *)
(***************************************************************************)
C17_FallbackByRowCount ==
    \A c \in ChartsReady :
        LET row_count == Len(DataReadyOf(c).query_results) IN
        (row_count >= 1 /\ \E e \in ChartCalls(c) : ~e.ok) =>
            c.chart_type = (IF row_count = 1 THEN "kpi"
                            ELSE IF 2 <= row_count /\ row_count <= 10 THEN "bar"
                            ELSE "table")

\* the LLM call failed for a result set of ten rows and a bar chart was selected
C17_Witness ==
    \E c \in ChartsReady :
        /\ Len(DataReadyOf(c).query_results) = 10
        /\ \E e \in ChartCalls(c) : ~e.ok
        /\ c.chart_type = "bar"

\* the LLM call failed for a result set of more than ten rows and a table was selected
C17_WitnessTable ==
    \E c \in ChartsReady :
        /\ Len(DataReadyOf(c).query_results) > 10
        /\ \E e \in ChartCalls(c) : ~e.ok
        /\ c.chart_type = "table"

\* the value a row has for a member of the query
member_value(row, member) == row[CHOOSE i \in 1..Len(row) : row[i].member = member].value

\* the values the rows have for a member of the query
member_values(rows, member) == {member_value(rows[i], member) : i \in 1..Len(rows)}

\* the chart specifications of type bar or donut published
LabelledCharts == {c \in ChartsReady : c.chart_spec.type \in {"bar", "donut"}}

\* the builder a chart specification of type bar or donut came from is the grouped one
\* when the archetype is grouped_bar and there are two dimensions at least (line 381)
BuiltGrouped(c) == c.chart_type = "grouped_bar" /\ Len(DataReadyOf(c).dimensions) >= 2

RepeatsByRow(c) ==
    LET rows == DataReadyOf(c).query_results
        colors == c.chart_spec.datasets[1].backgroundColor
    IN /\ Len(colors) = Len(rows)
       /\ \A i \in 1..Len(colors) : colors[i] = (i - 1) % PaletteSize

(***************************************************************************)
(* C19.  For bar and for donut charts the color list has exactly one entry *)
(* per row and entry i is the color at position i mod 12 of the fixed      *)
(* 12-color list, for every number of rows, more than 12 included.         *)
(***************************************************************************)
C19_ColorsRepeatByRow ==
    \A c \in LabelledCharts : c.chart_type \in {"bar", "donut"} => RepeatsByRow(c)

\* what holds of the bar archetype alone
C19_BarColorsRepeatByRow ==
    \A c \in LabelledCharts : c.chart_type = "bar" => RepeatsByRow(c)

\* a bar chart of more than 12 rows has been built
C19_BarWitness ==
    \E c \in LabelledCharts :
        c.chart_type = "bar" /\ Len(DataReadyOf(c).query_results) > PaletteSize

\* the chart specifications another execution of generate_chart_spec may build from the
\* result set, metric list, dimension list and archetype of a published chart
Rebuilt(c) ==
    LET k == DataReadyOf(c)
    IN {generate_chart_spec_rows(k.query_results, k.measures, k.dimensions, c.chart_type,
                                 iteration) :
            iteration \in Iterations(iterated_names(k.query_results, k.dimensions, k.measures,
                                                    c.chart_type))}

(***************************************************************************)
(* C20.  generate_chart_spec is deterministic: another execution on the    *)
(* same result set, metric list, dimension list and archetype builds the   *)
(* chart specification that was published, for every archetype and in      *)
(* whatever order the set of group names of a grouped bar chart is         *)
(* iterated.                                                               *)
(***************************************************************************)
C20_ChartSpecDeterministic ==
    \A c \in ChartsReady : Rebuilt(c) = {c.chart_spec}

\* a grouped bar chart of two series has been built, the set of its group names having
\* two iteration orders
C20_Witness ==
    \E c \in ChartsReady :
        /\ BuiltGrouped(c)
        /\ Cardinality(member_values(DataReadyOf(c).query_results, "g")) = 2
        /\ Len(c.chart_spec.datasets) = 2
        /\ c.chart_spec.datasets[1].label < c.chart_spec.datasets[2].label

\* the keys of the rows are the names of the query, qualified or short, as the query
\* service keys them
KeyedByName(k) ==
    \A name \in Names(k.dimensions) \cup Names(k.measures) :
        has_key(k.query_results[1], name) \/ has_key(k.query_results[1], ShortNames[name])

\* the number a value of a numeric column stands for: itself, the number its text
\* denotes, or 0 when it is null or text that denotes no number
NumberOf(value) ==
    IF value.t = "num" THEN value.v
    ELSE IF value.t = "str" /\ \E n \in 0..9 : value.v = NumericText(n)
         THEN CHOOSE n \in 0..9 : value.v = NumericText(n)
    ELSE 0

\* a list of strings is in ascending order without repetition
Ascending(list) == \A i, j \in 1..Len(list) : i < j => list[i] < list[j]

\* the rows that have the pair of a primary and a secondary string
RowsOfPair(rows, label, group_name) ==
    {i \in 1..Len(rows) : /\ str(member_value(rows[i], "x")) = label
                          /\ str(member_value(rows[i], "g")) = group_name}

\* the grouped bar charts built from rows of two dimensions
GroupedCharts ==
    {c \in ChartsReady : /\ c.chart_type = "grouped_bar"
                         /\ Len(DataReadyOf(c).dimensions) >= 2
                         /\ DataReadyOf(c).query_results # <<>>}

\* what C21 says of one grouped bar chart
GroupedAsStated(c) ==
    LET rows == DataReadyOf(c).query_results
        spec == c.chart_spec
        series == [i \in 1..Len(spec.datasets) |-> spec.datasets[i].label]
    IN /\ spec.type = "bar"
       /\ Names(series) = {str(v) : v \in member_values(rows, "g")}
       /\ Ascending(series)
       /\ Names(spec.labels) = {str(v) : v \in member_values(rows, "x")}
       /\ Ascending(spec.labels)
       /\ \A i \in 1..Len(spec.datasets) :
            /\ Len(spec.datasets[i].data) = Len(spec.labels)
            /\ \A j \in 1..Len(spec.labels) :
                 LET pair == RowsOfPair(rows, spec.labels[j], series[i])
                 IN spec.datasets[i].data[j] =
                        IF pair = {} THEN 0
                        ELSE NumberOf(member_value(
                                 rows[CHOOSE r \in pair : \A q \in pair : q <= r], "y"))

C21_GroupedBarSeriesAnyKeys ==
    \A c \in GroupedCharts : GroupedAsStated(c)

\* the bar charts built by the bar builder from rows of one dimension at least
BarCharts ==
    {c \in ChartsReady : /\ c.chart_type = "bar"
                         /\ DataReadyOf(c).dimensions # <<>>
                         /\ DataReadyOf(c).query_results # <<>>}

\* the labels are the first dimension's value of each row and the values the first
\* metric's value of each row as a number, both in row order
ColumnsOfQuery(c) ==
    LET rows == DataReadyOf(c).query_results
        spec == c.chart_spec
    IN /\ spec.type = "bar"
       /\ spec.labels = [i \in 1..Len(rows) |-> str(member_value(rows[i], "x"))]
       /\ spec.datasets[1].data = [i \in 1..Len(rows) |-> NumberOf(member_value(rows[i], "y"))]

\* the first column of a row that holds a value of type t, the first column if none does
FirstColumnOfType(row, t) ==
    LET typed == {i \in 1..Len(row) : row[i].value.t = t}
    IN IF typed = {} THEN row[1] ELSE row[CHOOSE i \in typed : \A j \in typed : i <= j]

\* in the first row the first dimension is the first column that holds a string and the
\* first metric the first column that holds a number
FoundByType(k) ==
    /\ FirstColumnOfType(k.query_results[1], "str").member = "x"
    /\ FirstColumnOfType(k.query_results[1], "num").member = "y"

(***************************************************************************)
(* C22.  For archetype bar the labels are the first dimension's value of   *)
(* each row and the values the first metric's value of each row coerced to *)
(* a number, both in row order, when the row keys are the qualified names  *)
(* or the short names after the last dot; when they are neither, the same  *)
(* holds if in the first row the first dimension is the first column       *)
(* holding a string and the first metric the first column holding a        *)
(* number.                                                                 *)
(***************************************************************************)
C22_BarColumns ==
    \A c \in BarCharts :
        (KeyedByName(DataReadyOf(c)) \/ FoundByType(DataReadyOf(c))) => ColumnsOfQuery(c)

\* a bar chart of two rows with the right labels and values was built from rows whose
\* keys are neither the qualified nor the short names
C22_Witness ==
    \E c \in BarCharts :
        /\ ~KeyedByName(DataReadyOf(c))
        /\ FoundByType(DataReadyOf(c))
        /\ Len(DataReadyOf(c).query_results) = 2
        /\ c.chart_spec.labels = <<1, 2>>
        /\ c.chart_spec.datasets[1].data = <<5, 5>>

\* a bar chart was built from rows keyed by the short names, the metric arriving as text
C22_ShortNameWitness ==
    \E c \in BarCharts :
        /\ has_key(DataReadyOf(c).query_results[1], "modality")
        /\ member_value(DataReadyOf(c).query_results[1], "y") = String(NumericText(7))
        /\ c.chart_spec.datasets[1].data[1] = 7

\* C22 as stated: the columns are found whatever the keys of the rows are
C22_BarColumnsAnyKeys ==
    \A c \in BarCharts : ColumnsOfQuery(c)

(***************************************************************************)
(* The insight generator on every answer of its LLM (quality_inspector.py) *)
(***************************************************************************)
\* longest "anomalies" list of an answer
MaxAnomalies == 2

\* result-set sizes of the data_ready analysed
InsightRowCounts == {0, 1, 2}

AnomalyEntries == {Anomaly("critical"), Anomaly("low"), Anomaly("None"), NotADict}

\* what the insight LLM may answer with: JSON with the three lists, JSON without some of
\* them, JSON with a null list, and text that is no JSON
InsightAnswers ==
    {[observations |-> o, anomalies |-> a, root_causes |-> c] :
        o \in {<<>>, <<"obs">>}, a \in SeqsUpTo(AnomalyEntries, MaxAnomalies),
        c \in {<<>>, <<"cause">>}}
    \cup {[observations |-> <<"obs">>],
          [anomalies |-> <<Anomaly("critical")>>]}
    \cup {[observations |-> <<"obs">>, root_causes |-> <<"cause">>, null |-> {"anomalies"}],
          [anomalies |-> <<Anomaly("critical")>>, null |-> {"observations", "root_causes"}]}
    \cup {[unparsable |-> TRUE]}

\* what analytics_specialist_handler may have published for the request of the round,
\* with the call of the query service it made
InsightCases ==
    {[unit |-> execute_query(build_cube_query(k), n), calls |-> {ServiceCall(k, "ok")}] :
        k \in ChartRequests, n \in InsightRowCounts}
    \cup {[unit |-> error_data_ready(k, error_type_of(outcome)),
           calls |-> {ServiceCall(k, outcome)}] :
            k \in ChartRequests, outcome \in ServiceOutcomes \ {"ok"}}
    \cup {[unit |-> rejected_data_ready(RejectedChartRequest), calls |-> {}]}

InitInsights == InitWith(InsightCases)

NextInsights == \E d \in reef : inspect(d, InsightAnswers)

SpecInsights == InitInsights /\ [][NextInsights]_vars

\* the runs of the insight generator that called the LLM
InsightRuns == {e \in llm_log : e.agent = "quality_inspector"}

\* the insights_ready units published for the round of a run and not yet joined
InsightsReady(e) ==
    {d.knowledge : d \in {x \in Inbox("report_writer") :
                            /\ x.knowledge.type = "insights_ready"
                            /\ x.knowledge.session_id = e.session_id
                            /\ x.knowledge.rnd = e.rnd}}

\* the LLM call of a run failed, or its output was no JSON or had null for a list
InsightFailure(e) ==
    \/ ~e.ok
    \/ Get(e.answer, "unparsable", FALSE)
    \/ Get(e.answer, "null", {}) # {}

(***************************************************************************)
(* C23.  When the insight LLM call fails or its output cannot be parsed,   *)
(* the bundle published has observations, anomalies and root_causes all    *)
(* empty, and insights_ready is still published exactly once for the       *)
(* data_ready: no partially filled bundle is published after a failure.    *)
(***************************************************************************)
C23_EmptyBundleOnFailure ==
    \A e \in InsightRuns :
        InsightFailure(e) =>
            /\ CopiesIn(<<"insights_ready", e.session_id, e.rnd>>, sent) = 1
            /\ Cardinality(InsightsReady(e)) = 1
            /\ \A i \in InsightsReady(e) :
                 /\ i.observations = <<>>
                 /\ i.anomalies = <<>>
                 /\ i.root_causes = <<>>

\* an answer with lists that could be read and a null list has led to the empty bundle
C23_Witness ==
    \E e \in InsightRuns :
        /\ e.ok
        /\ Get(e.answer, "null", {}) # {}
        /\ Get(e.answer, "observations", <<>>) # <<>>
        /\ \E i \in InsightsReady(e) : i.observations = <<>>

\* the LLM call itself failed and the empty bundle was published
C23_WitnessCallFailed ==
    \E e \in InsightRuns : ~e.ok /\ InsightsReady(e) # {}

\* the bundle a run analysed: the lists of the answer, or the empty bundle after a failure
AnalysedBundle(e) ==
    IF InsightFailure(e) THEN EmptyBundle
    ELSE [observations |-> Get(e.answer, "observations", <<>>),
          anomalies |-> Get(e.answer, "anomalies", <<>>),
          root_causes |-> Get(e.answer, "root_causes", <<>>)]

\* the positions at which a run broadcast a unit of a type
BroadcastsOf(e, type) == {i \in 1..Len(e.broadcasts) : e.broadcasts[i].type = type}

\* what C24 says of one run
NotifiesOfCritical(e) ==
    LET critical == SelectSeq(AnalysedBundle(e).anomalies, LAMBDA a : a.severity = "critical")
        notified == BroadcastsOf(e, "anomaly_detected")
        published == BroadcastsOf(e, "insights_ready")
    IN /\ (notified # {}) <=> (critical # <<>>)
       /\ Cardinality(notified) <= 1
       /\ \A i \in notified : e.broadcasts[i].anomalies = critical
       /\ Cardinality(published) = 1
       /\ \A i \in notified, j \in published : i < j
       /\ CopiesIn(<<"insights_ready", e.session_id, e.rnd>>, sent) = 1
       /\ CopiesIn(<<"anomaly_detected", e.session_id, e.rnd>>, sent) = Cardinality(notified)

(***************************************************************************)
(* C24.  The insight generator publishes an anomaly_detected notification  *)
(* if and only if the bundle analysed holds an anomaly of severity         *)
(* critical; the notification carries exactly the critical anomalies and   *)
(* is published before the insights_ready of the run; insights_ready is    *)
(* published exactly once in either case.                                  *)
(***************************************************************************)
C24_CriticalAnomalyNotified ==
    \A e \in InsightRuns : NotifiesOfCritical(e)

\* the same of the runs whose anomalies are all dicts
C24_CriticalAnomalyNotifiedOfDicts ==
    \A e \in InsightRuns :
        (\A i \in 1..Len(AnalysedBundle(e).anomalies) : AnalysedBundle(e).anomalies[i].dict)
            => NotifiesOfCritical(e)

\* a notification with the one critical anomaly of two was published before insights_ready
C24_DictsWitness ==
    \E e \in InsightRuns :
        /\ Len(AnalysedBundle(e).anomalies) = 2
        /\ Len(e.broadcasts) = 2
        /\ e.broadcasts[1].type = "anomaly_detected"
        /\ Len(e.broadcasts[1].anomalies) = 1

(***************************************************************************)
(* Caller timeout and the mailbox (app.py 234-274, report_writer.py)       *)
(***************************************************************************)
\* call r of session s has returned
Returned(s, r) ==
    \/ chat_state[s].rnd > r
    \/ chat_state[s].rnd = r /\ chat_state[s].pc = "idle"

\* call r of session s has returned the timeout message: it returned without a take
TimedOut(s, r) ==
    /\ r >= 1
    /\ Returned(s, r)
    /\ ~\E t \in taken : t.session_id = s /\ t.call = r

\* in this step the call of session s returns the timeout message
TimesOutNow(s) ==
    /\ chat_state[s].pc = "polling"
    /\ chat_state'[s].pc = "idle"
    /\ taken' = taken

\* in this step the mailbox entry of session s goes away
EntryRemoved(s) == s \in DOMAIN pending_responses /\ s \notin DOMAIN pending_responses'

(***************************************************************************)
(* C25.  Caller timeout does not cancel the pipeline.  A call returns the  *)
(* timeout message only when its polling window ends with no mailbox entry *)
(* for the session, and that step leaves everything scheduled, suspended   *)
(* and stored as it was, so the handlers keep running; a mailbox entry     *)
(* written afterwards goes away only by a take on its session: nothing     *)
(* sweeps or expires it.                                                   *)
(***************************************************************************)
C25_TimeoutDoesNotCancel ==
    [][\A s \in Sessions :
          /\ TimesOutNow(s) =>
                /\ s \notin DOMAIN pending_responses
                /\ UNCHANGED <<reef, session_data, pending_responses, composing, sent>>
          /\ EntryRemoved(s) =>
                \E t \in taken' \ taken :
                    /\ t.session_id = s
                    /\ t.response = pending_responses[s]
                    /\ chat_state[s].pc = "polling"]_vars

\* the only call of a session has timed out, and the composer has since written the
\* response of that round into the mailbox, where it sits with no caller polling
C25_Witness ==
    \E s \in Sessions :
        /\ chat_state[s] = [pc |-> "idle", rnd |-> 1]
        /\ TimedOut(s, 1)
        /\ s \in DOMAIN pending_responses
        /\ pending_responses[s].rnd = 1
        /\ Quiescent

(***************************************************************************)
(* Session manager (session_manager.py, config.py 32-34, app.py 338-346)   *)
(***************************************************************************)
\* settings.max_session_messages and settings.session_timeout_minutes
max_session_messages == 30
session_timeout_minutes == 30

\* session ids clients and create_session use
SessionIds == {"a", "b"}

\* the number of messages the model lets be added to one session
MaxAdds == 35

\* the clock runs in minutes up to MaxTime, moving by one of ClockSteps between calls
MaxTime == 46
ClockSteps == {15, 31}

\* the i-th message added to a session since it came into being: "Message i"
Message(i) == i

\* dict.pop(key, None) for every key of a list of keys
pop_all(dict, keys) == [x \in DOMAIN dict \ keys |-> dict[x]]

\* a trim that keeps the oldest messages
first_messages(messages, n) == SubSeq(messages, 1, Min(n, Len(messages)))

\* line 40: messages[-n:]; -0 is 0, so n = 0 slices the whole list
last_messages(messages, n) ==
    IF n = 0 THEN messages
    ELSE SubSeq(messages, Len(messages) - Min(n, Len(messages)) + 1, Len(messages))

\* an expiry test that already expires a session at the timeout itself
is_expired_at_timeout(ts, now) == now - ts >= session_timeout_minutes

\* line 55: now - ts > timeout
is_expired(ts, now) == now - ts > session_timeout_minutes

\* lines 53-56: the expired session ids
expired_sessions(m, now) ==
    {sid \in DOMAIN m.session_timestamps : is_expired(m.session_timestamps[sid], now)}

\* lines 49-59: _cleanup_expired_sessions
cleanup_expired_sessions(m, now) ==
    [sessions |-> pop_all(m.sessions, expired_sessions(m, now)),
     session_timestamps |-> pop_all(m.session_timestamps, expired_sessions(m, now))]

\* the history forgets the messages of the sessions a call removed
forget(h, removed) == [h EXCEPT !.added = pop_all(@, removed)]

\* lines 17-22: create_session; uuid4 gives an id never seen before
create_session(s) ==
    /\ s \notin DOMAIN manager_history.activity
    /\ session_manager' =
         [sessions |-> Put(session_manager.sessions, s, <<>>),
          session_timestamps |-> Put(session_manager.session_timestamps, s,
                                     manager_history.now)]
    /\ manager_history' =
         [manager_history EXCEPT !.added = Put(@, s, <<>>),
                                 !.activity = Put(@, s, manager_history.now),
                                 !.deleted = @ \ {s},
                                 !.returned = [call |-> "create_session", session_id |-> s,
                                               value |-> TRUE]]
    /\ UNCHANGED <<agents, el_pipeline>>

\* lines 29-40: add_message, with the next message of the session
add_message(s) ==
    LET now == manager_history.now
        so_far == Get(manager_history.added, s, <<>>)
        message == Message(Len(so_far))
        appended == Append(Get(session_manager.sessions, s, <<>>), message)
    IN /\ Len(so_far) < MaxAdds
       /\ session_manager' =
            [sessions |-> Put(session_manager.sessions, s,
                              IF Len(appended) > max_session_messages
                              THEN last_messages(appended, max_session_messages)
                              ELSE appended),
             session_timestamps |-> Put(session_manager.session_timestamps, s, now)]
       /\ manager_history' =
            [manager_history EXCEPT !.added = Put(@, s, Append(so_far, message)),
                                    !.activity = Put(@, s, now),
                                    !.deleted = @ \ {s},
                                    !.returned = [call |-> "add_message", session_id |-> s,
                                                  value |-> TRUE]]
       /\ UNCHANGED <<agents, el_pipeline>>

\* a call that runs the cleanup and then reads the maps; recorded of get_session is
\* whether it returned a list rather than None, of get_context whether it returned any
\* message, of session_exists its result
cleanup_then(call, s) ==
    LET now == manager_history.now
        cleaned == cleanup_expired_sessions(session_manager, now)
        value == IF call = "get_context" THEN Get(cleaned.sessions, s, <<>>) # <<>>
                 ELSE s \in DOMAIN cleaned.sessions
    IN /\ session_manager' = cleaned
       /\ manager_history' =
            [forget(manager_history, expired_sessions(session_manager, now))
                EXCEPT !.returned = [call |-> call, session_id |-> s, value |-> value]]
       /\ UNCHANGED <<agents, el_pipeline>>

\* lines 24-27: get_session
get_session(s) == cleanup_then("get_session", s)

\* lines 42-47: get_context
get_context(s) == cleanup_then("get_context", s)

\* lines 61-64: session_exists
session_exists(s) == cleanup_then("session_exists", s)

\* app.py 338-346: DELETE /session/{session_id} pops the session from both maps
delete_session(s) ==
    /\ s \in DOMAIN session_manager.sessions
    /\ session_manager' =
         [sessions |-> pop_all(session_manager.sessions, {s}),
          session_timestamps |-> pop_all(session_manager.session_timestamps, {s})]
    /\ manager_history' =
         [forget(manager_history, {s})
             EXCEPT !.deleted = @ \cup {s},
                    !.returned = [call |-> "delete_session", session_id |-> s,
                                  value |-> TRUE]]
    /\ UNCHANGED <<agents, el_pipeline>>

\* datetime.now() moves on between two calls
tick(minutes) ==
    /\ manager_history.now + minutes <= MaxTime
    /\ manager_history' = [manager_history EXCEPT !.now = @ + minutes, !.returned = NoCall]
    /\ UNCHANGED <<agents, session_manager, el_pipeline>>

NextSessions ==
    \/ \E s \in SessionIds : create_session(s)
    \/ \E s \in SessionIds : add_message(s)
    \/ \E s \in SessionIds : get_session(s)
    \/ \E s \in SessionIds : get_context(s)
    \/ \E s \in SessionIds : session_exists(s)
    \/ \E s \in SessionIds : delete_session(s)
    \/ \E minutes \in ClockSteps : tick(minutes)

SpecSessions == Init /\ [][NextSessions]_vars

\* the messages added to a live session since it came into being
AddedTo(s) == manager_history.added[s]

\* the stored history of s is the last n messages added to it, in the order added
IsTailOfAdded(s, n) ==
    LET stored == session_manager.sessions[s]
        k == Min(n, Len(AddedTo(s)))
    IN /\ Len(stored) = k
       /\ \A i \in 1..k : stored[i] = AddedTo(s)[Len(AddedTo(s)) - k + i]

Active(s) ==
    /\ s \in DOMAIN manager_history.activity
    /\ manager_history.now - manager_history.activity[s] <= session_timeout_minutes

\* s is held by both maps of the session manager
Held(s) ==
    /\ s \in DOMAIN session_manager.sessions
    /\ s \in DOMAIN session_manager.session_timestamps

\* s is held by neither map
Gone(s) ==
    /\ s \notin DOMAIN session_manager.sessions
    /\ s \notin DOMAIN session_manager.session_timestamps

\* the last call ran the cleanup, and the clock has not moved since
JustCleaned == manager_history.returned.call \in {"get_session", "get_context", "session_exists"}

\* a cleanup leaves no session whose last activity is older than the timeout in either
\* map, and no call removes a session whose last activity is within the timeout, unless
\* it was deleted
ExpiryAsStated ==
    /\ JustCleaned => \A s \in SessionIds : ~Active(s) => Gone(s)
    /\ \A s \in SessionIds : Active(s) /\ s \notin manager_history.deleted => Held(s)

(***************************************************************************)
(* C27.  Session expiry.  The next cleanup removes a session whose last    *)
(* activity is older than the timeout from both maps, a session within the *)
(* timeout is never removed by a cleanup, and session_exists returns true  *)
(* exactly for the sessions created or written, not expired, and not       *)
(* deleted since they were last created or written.                        *)
(***************************************************************************)
C27_SessionExpiry ==
    /\ ExpiryAsStated
    /\ manager_history.returned.call = "session_exists" =>
          LET s == manager_history.returned.session_id
          IN manager_history.returned.value = (Active(s) /\ s \notin manager_history.deleted)

\* the statement without the deletion: true exactly for created or written and not expired
C27_SessionExpiryAsStated ==
    /\ ExpiryAsStated
    /\ manager_history.returned.call = "session_exists" =>
          manager_history.returned.value = Active(manager_history.returned.session_id)

\* session_exists has just answered false for a session whose last activity is older
\* than the timeout and that the cleanup took out of both maps, while another session,
\* written exactly the timeout ago, is still held
C27_Witness ==
    \E s \in SessionIds, other \in SessionIds :
        /\ other # s
        /\ manager_history.returned = [call |-> "session_exists", session_id |-> s,
                                       value |-> FALSE]
        /\ s \in DOMAIN manager_history.activity
        /\ s \notin manager_history.deleted
        /\ ~Active(s)
        /\ Gone(s)
        /\ Held(other)
        /\ manager_history.now - session_manager.session_timestamps[other]
              = session_timeout_minutes

(***************************************************************************)
(* EL pipeline (el_pipeline/pipeline.py, loader.py, extractor.py,          *)
(* database.py)                                                            *)
(***************************************************************************)
\* the ids a source table may hold, and the most rows a warehouse table holds beforehand
MaxSourceId == 2
MaxPriorRows == 2

\* the three sources, each with its warehouse raw table
SourceNames == {"refills", "bodies", "springs"}

\* a source table is the set of its rows' ids; a raw table is the list of the rows loaded
SourceTables == SUBSET (1..MaxSourceId)
PriorTables == {[i \in 1..n |-> i] : n \in 0..MaxPriorRows}

\* extractor.py 26-44: SELECT * FROM table ORDER BY id
RECURSIVE extract_all(_)
extract_all(table) ==
    IF table = {} THEN <<>>
    ELSE LET least == CHOOSE r \in table : \A q \in table : r <= q
         IN <<least>> \o extract_all(table \ {least})

\* database.py 117-129: TRUNCATE TABLE
truncate_table(warehouse, name) == [warehouse EXCEPT ![name] = <<>>]

\* database.py 87-97: the batch insert adds the rows to the table
execute_insert_batch(warehouse, name, rows) == [warehouse EXCEPT ![name] = @ \o rows]

\* loader.py 24-73, 75-122, 124-170: load_refills, load_bodies and load_springs have one
\* shape: return when there is no data, else truncate if asked, then insert
load(warehouse, name, data, truncate) ==
    IF data = <<>> THEN warehouse
    ELSE execute_insert_batch(IF truncate THEN truncate_table(warehouse, name) ELSE warehouse,
                              name, data)

\* database.py 99-115 through loader.py 172-181: SELECT COUNT(*)
get_load_count(name) == Len(el_pipeline.warehouse[name])

\* pipeline.py 99-109
get_warehouse_stats == [name \in SourceNames |-> get_load_count(name)]

\* one "extract and load" block of run_full_sync
process(name, here, next) ==
    /\ el_pipeline.pc = here
    /\ LET data == extract_all(el_pipeline.sources[name])
       IN el_pipeline' = [el_pipeline EXCEPT !.pc = next,
                                             !.extracted = Put(@, name, data),
                                             !.warehouse = load(@, name, data, TRUE)]
    /\ UNCHANGED <<agents, session_manager, manager_history>>

\* pipeline.py 37-42
process_refills == process("refills", "refills", "bodies")

\* pipeline.py 44-49
process_bodies == process("bodies", "bodies", "springs")

\* pipeline.py 51-56
process_springs == process("springs", "springs", "return")

\* pipeline.py 62-66: the statistics returned
return_statistics ==
    /\ el_pipeline.pc = "return"
    /\ el_pipeline' = [el_pipeline EXCEPT
                          !.pc = "done",
                          !.stats = [name \in SourceNames |-> Len(el_pipeline.extracted[name])]]
    /\ UNCHANGED <<agents, session_manager, manager_history>>

\* run_full_sync is called on some sources and some warehouse
InitSync ==
    /\ chat_state = [s \in Sessions |-> [pc |-> "idle", rnd |-> 0]]
    /\ reef = {}
    /\ session_data = <<>>
    /\ pending_responses = <<>>
    /\ composing = {}
    /\ sent = EmptyBag
    /\ llm_log = {}
    /\ svc_log = EmptyBag
    /\ taken = {}
    /\ IdleManager
    /\ \E sources \in [SourceNames -> SourceTables], warehouse \in [SourceNames -> PriorTables] :
          el_pipeline = [pc |-> "refills", sources |-> sources, warehouse |-> warehouse,
                         extracted |-> <<>>, stats |-> <<>>]

NextSync ==
    \/ process_refills
    \/ process_bodies
    \/ process_springs
    \/ return_statistics

SpecSync == InitSync /\ [][NextSync]_vars

\* run_full_sync has returned
SyncCompleted == el_pipeline.pc = "done"

(***************************************************************************)
(* C28.  After run_full_sync completes, for each of the three sources the  *)
(* number of rows in its warehouse raw table equals the number of rows     *)
(* extracted from the source and reported in the returned statistics,      *)
(* whatever the table held before and for every source size, zero rows     *)
(* included.                                                               *)
(***************************************************************************)
C28_WarehouseMatchesSources ==
    SyncCompleted =>
        \A name \in SourceNames :
            /\ el_pipeline.stats[name] = Len(el_pipeline.extracted[name])
            /\ get_warehouse_stats[name] = el_pipeline.stats[name]

\* the same for the sources that had rows: theirs is the case the integration test runs
C28_WarehouseMatchesNonEmptySources ==
    SyncCompleted =>
        \A name \in SourceNames :
            /\ el_pipeline.stats[name] = Len(el_pipeline.extracted[name])
            /\ el_pipeline.sources[name] # {} =>
                  get_warehouse_stats[name] = el_pipeline.stats[name]

\* a full sync has completed on a warehouse that held rows in all three tables, with
\* rows in every source
C28_NonEmptyWitness ==
    /\ SyncCompleted
    /\ \A name \in SourceNames :
          /\ el_pipeline.stats[name] = MaxSourceId
          /\ Len(el_pipeline.warehouse[name]) = MaxSourceId

(***************************************************************************)
(* Rounds of one session that overlap (app.py 194-274, report_writer.py    *)
(* 33-47, 356-380, 409-416)                                                *)
(***************************************************************************)
\* the takes that returned a response composed in another round than the call's own
ForeignTakes == {t \in taken : t.response.rnd # t.call}

(***************************************************************************)
(* C29.  A chat call returns a final response that was composed for its    *)
(* own user_query: never one that an earlier round of the same session_id  *)
(* left in the mailbox, whether written late after that round's caller     *)
(* timed out or written a second time by the response_storage handler      *)
(* after that round's caller had taken it.                                 *)
(***************************************************************************)
C29_OwnResponseReturned ==
    \A t \in taken :
        /\ t.response.session_id = t.session_id
        /\ t.response.rnd = t.call

\* the first call of a session returns the response of its own round: there is no
\* earlier round to leave anything behind
C29_FirstCallReturnsOwn ==
    \A t \in taken : t.call = 1 => t.response.session_id = t.session_id /\ t.response.rnd = 1

\* the first call of a session has taken the response composed for it
C29_FirstCallWitness ==
    \E t \in taken : t.call = 1 /\ t.response.rnd = 1 /\ t.response.session_id = t.session_id

\* the user_query the chart of a join derives from; a rejection carries no chart
ChartRound(chart_spec) == IF chart_spec = None THEN <<>> ELSE chart_spec.of

\* the user_query the insight bundle behind a narrative derives from
NarrativeRound(narrative) == IF narrative.kind = "rejection" THEN <<>> ELSE narrative.about

\* a second user_query of s was published while units of its first round were still
\* scheduled, stored or being composed
RoundsOverlap(s) ==
    /\ Published("user_query", s, 2) > 0
    /\ \/ \E d \in reef : d.knowledge.session_id = s /\ d.knowledge.rnd = 1
       \/ \E t \in composing : t.session_id = s /\ t.rnd = 1
       \/ /\ s \in DOMAIN session_data
          /\ \/ ChartRound(session_data[s].chart) = <<s, 1>>
             \/ /\ session_data[s].insights # None
                /\ session_data[s].insights.rnd = 1

(***************************************************************************)
(* C30.  When a second user_query of a session is published while the      *)
(* first round's pipeline is still in flight, every final response         *)
(* composed for the session combines a chart and an insight bundle that    *)
(* derive from the same user_query: units of two rounds of one session are *)
(* never joined with each other.                                           *)
(***************************************************************************)
C30_JoinsWithinOneRound ==
    /\ \A t \in composing :
          ChartRound(t.chart_spec) = <<t.insights.session_id, t.insights.rnd>>
    /\ \A f \in Finals :
          f.narrative.kind # "rejection" =>
              ChartRound(f.chart_spec) = NarrativeRound(f.narrative)

\* the rounds of a session overlap: the second user_query is out while a unit of the
\* first round is still stored at the composer
C30_OverlapReached ==
    \E s \in Sessions : RoundsOverlap(s) /\ s \in DOMAIN session_data

(***************************************************************************)
(* The effects of a compose and the content of the mailbox                 *)
(* (report_writer.py 33-47, 409-420)                                       *)
(***************************************************************************)
\* in this step a final_response_ready of session s is published
PublishesFinal(s) ==
    \E r \in 1..MaxQueries :
        CopiesIn(<<"final_response_ready", s, r>>, sent')
            > CopiesIn(<<"final_response_ready", s, r>>, sent)

\* in this step the response_storage handler takes the final response f off the bus
StoresDelivered(f) ==
    \E d \in reef \ reef' : d.to = "response_storage" /\ d.knowledge = f

\* every mailbox entry under key s is a final response of s that has been published
MailboxSound ==
    \A s \in DOMAIN pending_responses :
        /\ pending_responses[s].type = "final_response_ready"
        /\ pending_responses[s].session_id = s
        /\ Published("final_response_ready", s, pending_responses[s].rnd) > 0

(***************************************************************************)
(* C31.  On reaching COMPOSED for a session all three effects occur in the *)
(* same handler step: final_response_ready is published, the mailbox entry *)
(* of the session is written with the response published, and the          *)
(* accumulator of the session is deleted.  Every mailbox entry under key S *)
(* is a final response with session_id S, and what a step writes under S   *)
(* is the response published in that step or one taken off the bus in it:  *)
(* both writers store a published response.                                *)
(***************************************************************************)
C31_ComposeEffectsAndMailbox ==
    [][/\ \A s \in Sessions :
             PublishesFinal(s) =>
                /\ s \in DOMAIN pending_responses'
                /\ \E d \in reef' : d.to = "response_storage"
                                    /\ d.knowledge = pending_responses'[s]
                /\ s \notin DOMAIN session_data'
       /\ \A s \in DOMAIN pending_responses' :
             Get(pending_responses, s, None) # pending_responses'[s] =>
                \/ PublishesFinal(s)
                \/ StoresDelivered(pending_responses'[s])
       /\ MailboxSound']_vars

\* a compose has just happened for a session: its response is in the mailbox and on the
\* bus for response_storage, and the session has no accumulator
C31_Witness ==
    \E s \in DOMAIN pending_responses :
        /\ pending_responses[s] \in FinalsOnBus
        /\ pending_responses[s].narrative.kind # "rejection"
        /\ s \notin DOMAIN session_data

(***************************************************************************)
(* Units handled by the composer before and after a join                   *)
(* (report_writer.py 356-423)                                              *)
(***************************************************************************)
\* the kind of unit the accumulator of s holds while it waits for the other kind
StoredKind(s) ==
    IF s \notin DOMAIN session_data THEN "none"
    ELSE IF session_data[s].chart # None /\ session_data[s].insights = None
         THEN "chart_ready"
    ELSE IF session_data[s].chart = None /\ session_data[s].insights # None
         THEN "insights_ready"
    ELSE "other"

\* s is AWAITING_BOTH with one unit stored
AwaitingOther(s) == StoredKind(s) \in {"chart_ready", "insights_ready"}

\* in this step the composer handles the delivery d
ComposerHandles(d) == d \in reef \ reef' /\ d.to = "report_writer"

\* the step handling unit k replaces the stored value and composes nothing
ReplacesOnly(k) ==
    LET s == k.session_id
    IN /\ session_data' = store(session_data, k)
       /\ StoredKind(s)' = k.type
       /\ UNCHANGED <<composing, sent, pending_responses>>

\* the step handling unit k starts or makes exactly one compose, from what is stored and k
ComposesOnce(k) ==
    LET s == k.session_id
        chart == IF k.type = "chart_ready" THEN k.chart_spec ELSE session_data[s].chart
        insights == IF k.type = "insights_ready" THEN k ELSE session_data[s].insights
    IN IF Get(insights, "is_rejected", FALSE)
       THEN /\ composing' = composing
            /\ sent' = sent (+) SetToBag({<<"final_response_ready", s, k.rnd>>})
            /\ s \in DOMAIN pending_responses'
            /\ pending_responses'[s].narrative =
                  [kind |-> "rejection",
                   reason |-> Get(insights, "rejection_reason", "Query out of scope")]
       ELSE /\ sent' = sent
            /\ \E t \in composing' \ composing :
                  /\ composing' = composing \cup {t}
                  /\ t.session_id = s
                  /\ t.chart_spec = chart
                  /\ t.insights = insights

\* the stored unit of s replaced an earlier one of its kind, and nothing was composed
\* for s so far
AfterDuplicate(s) ==
    /\ AwaitingOther(s)
    /\ \A r \in 1..MaxQueries :
          /\ Handled(StoredKind(s), s, r)
          /\ Published("final_response_ready", s, r) = 0

\* what the statement says of the step that handles d: a unit of the stored kind only
\* replaces, and a unit of the other kind that follows a replacement composes once
DuplicateAsStated(d) ==
    LET k == d.knowledge
    IN ComposerHandles(d) /\ AwaitingOther(k.session_id) =>
          IF k.type = StoredKind(k.session_id) THEN ReplacesOnly(k)
          ELSE AfterDuplicate(k.session_id) => ComposesOnce(k)

(***************************************************************************)
(* C32.  Duplicate delivery before the join completes.  A second           *)
(* chart_ready (or insights_ready) of a session handled while the session  *)
(* still awaits the other kind replaces the stored value without           *)
(* composing; when the other kind arrives exactly one compose results, and *)
(* it uses the last stored chart, the last stored insights and the         *)
(* is_rejected flag of the last insights_ready.                            *)
(***************************************************************************)
C32_DuplicateBeforeJoin == [][\A d \in reef : DuplicateAsStated(d)]_vars

\* the same wherever building the narrative prompt does not raise on the chart
C32_DuplicateBeforeJoinNoRaise ==
    [][\A d \in reef :
          LET k == d.knowledge
              chart == IF k.type = "chart_ready" THEN k.chart_spec
                       ELSE Get(Get(session_data, k.session_id, <<>>), "chart", None)
          IN (chart # None /\ ~prompt_raises(chart)) => DuplicateAsStated(d)]_vars

\* a second chart of the session has replaced the first while the session still awaits
\* its insights
C32_ReplacedWitness ==
    \E s \in DOMAIN session_data :
        /\ StoredKind(s) = "chart_ready"
        /\ session_data[s].chart.of = <<s, 2>>
        /\ AfterDuplicate(s)

\* a final response has been published for s: s has reached COMPOSED
Composed(s) == \E r \in 1..MaxQueries : Published("final_response_ready", s, r) > 0

\* a unit handled after COMPOSED, when s has no accumulator, is stored alone and nothing
\* is composed from it
FreshAccumulator ==
    \A d \in reef :
        LET k == d.knowledge
            s == k.session_id
        IN ComposerHandles(d) /\ Composed(s) /\ s \notin DOMAIN session_data =>
              /\ session_data' = store(session_data, k)
              /\ StoredKind(s)' = k.type
              /\ UNCHANGED <<composing, sent, pending_responses>>

\* an accumulator that holds one unit after COMPOSED stays until the composer handles a
\* unit of the other kind of its session
PersistsUntilOther ==
    \A s \in Sessions :
        Composed(s) /\ AwaitingOther(s) /\ s \notin DOMAIN session_data' =>
            \E d \in reef : /\ ComposerHandles(d)
                            /\ d.knowledge.session_id = s
                            /\ d.knowledge.type # StoredKind(s)

\* when that unit is handled, a compose is started or made, which publishes a further
\* final response
SecondCompose ==
    \A d \in reef :
        LET k == d.knowledge
            s == k.session_id
        IN ComposerHandles(d) /\ Composed(s) /\ AwaitingOther(s) /\ k.type # StoredKind(s)
              => ComposesOnce(k)

(***************************************************************************)
(* C33.  A chart_ready or insights_ready of a session handled after the    *)
(* session reached COMPOSED creates a fresh accumulator holding only that  *)
(* unit; no response is composed from it alone, the accumulator persists   *)
(* until a unit of the other kind of the session arrives, and at that      *)
(* point a second final_response_ready of the session is published.        *)
(***************************************************************************)
C33_UnitAfterComposed == [][FreshAccumulator /\ PersistsUntilOther /\ SecondCompose]_vars

\* the parts one by one
C33_FreshAccumulatorOnly == [][FreshAccumulator]_vars
C33_PersistsUntilOtherOnly == [][PersistsUntilOther]_vars
C33_SecondComposeOnly == [][SecondCompose]_vars

\* a unit handled after COMPOSED is stored alone in a fresh accumulator
C33_FreshWitness ==
    \E s \in DOMAIN session_data :
        /\ Composed(s)
        /\ AwaitingOther(s)
        /\ Published("final_response_ready", s, 1) = 1
        /\ session_data[s].chart # None
        /\ session_data[s].chart.of = <<s, 2>>

(***************************************************************************)
(* Who writes the accumulator map and the mailbox                          *)
(* (report_writer.py 17-23, 33-47, 335-425; app.py 244-254)                *)
(***************************************************************************)
\* this step is an invocation of the named handler
StepOf(handler) == \E d \in reef \ reef' : d.to = handler

\* this step belongs to an invocation of report_writer_handler: its start, or its
\* return from an LLM call
ComposerStep == StepOf("report_writer") \/ composing' # composing

\* this step is a successful poll of the caller of session s
TakeOf(s) ==
    /\ chat_state[s].pc = "polling"
    /\ \E t \in taken' \ taken : t.session_id = s

(***************************************************************************)
(* C34.  Frame condition on the join state.  The handlers of the domain    *)
(* expert, the analytics specialist, the visualization specialist and the  *)
(* quality inspector leave the accumulator map and the mailbox unchanged;  *)
(* the accumulator map is written only by the composer's handler; mailbox  *)
(* entries are added only by the composer and the response_storage         *)
(* handler, and removed only by the caller's take.                         *)
(***************************************************************************)
C34_JoinStateFrame ==
    [][/\ \A h \in {"domain_expert", "analytics_specialist", "visualization_specialist",
                    "quality_inspector"} :
             StepOf(h) => UNCHANGED <<session_data, pending_responses>>
       /\ session_data' # session_data => ComposerStep
       /\ \A s \in Sessions :
             /\ (s \in DOMAIN pending_responses'
                 /\ Get(pending_responses, s, None) # pending_responses'[s])
                   => ComposerStep \/ StepOf("response_storage")
             /\ (s \in DOMAIN pending_responses /\ s \notin DOMAIN pending_responses')
                   => TakeOf(s)]_vars

\* the four upstream handlers have run for a session while another session has a
\* mailbox entry and this one an accumulator
C34_Witness ==
    \E s \in DOMAIN pending_responses, o \in DOMAIN session_data :
        /\ s # o
        /\ Published("domain_enriched_request", o, 1) > 0
        /\ Published("data_ready", o, 1) > 0
        /\ Published("chart_ready", o, 1) > 0
        /\ Published("insights_ready", o, 1) > 0
        /\ ~Handled("insights_ready", o, 1)

(***************************************************************************)
(* One data_ready through both of its handlers and the composer            *)
(* (visualization_specialist.py 638-714, quality_inspector.py 250-316,     *)
(* report_writer.py 335-425)                                               *)
(***************************************************************************)
\* the round of s1 from the publication of its data_ready on: a result of 0 to 2 rows,
\* an error placeholder of each kind or the placeholder of a rejected request
InitFanOut == InitWith(InsightCases)

NextFanOut ==
    \/ \E d \in reef : visualization_specialist_handler(d)
    \/ \E d \in reef : inspect(d, InsightAnswers)
    \/ \E d \in reef : report_writer_handler(d)
    \/ \E t \in composing : narrative_returns(t)
    \/ \E t \in composing : follow_ups_return(t)
    \/ \E d \in reef : response_storage_handler(d)
    \/ \E s \in Sessions : chat_take(s)
    \/ \E s \in Sessions : chat_timeout(s)

SpecFanOut == InitFanOut /\ [][NextFanOut]_vars

\* the query service call of the round raised: its data_ready is error-tagged
ErrorRound == \E e \in BagToSet(svc_log) : e.raised

\* the insights_ready units that exist: on the bus, stored, or held by a compose
InsightsUnits ==
    {d.knowledge : d \in {x \in Inbox("report_writer") : x.knowledge.type = "insights_ready"}}
    \cup {session_data[s].insights : s \in {x \in DOMAIN session_data :
                                              session_data[x].insights # None}}
    \cup {t.insights : t \in composing}

\* the chart specifications that exist: on the bus, stored, held by a compose or composed
ChartSpecs ==
    {d.knowledge.chart_spec : d \in {x \in Inbox("report_writer") :
                                        x.knowledge.type = "chart_ready"}}
    \cup {session_data[s].chart : s \in {x \in DOMAIN session_data :
                                           session_data[x].chart # None}}
    \cup {t.chart_spec : t \in composing}
    \cup {f.chart_spec : f \in Finals}

(***************************************************************************)
(* C35.  A query-service failure is not treated as a rejection.  For an    *)
(* error-tagged data_ready the quality inspector publishes an empty        *)
(* insights_ready with is_rejected false without calling the LLM, the      *)
(* visualization specialist publishes an empty chart, and the composer     *)
(* reaches COMPOSED through the narrative path, by the LLM or by the       *)
(* templated fallback, never through the fixed rejection narrative.        *)
(***************************************************************************)
C35_ErrorIsNotRejection ==
    ErrorRound =>
        /\ \A e \in llm_log : e.agent \notin {"quality_inspector", "visualization_specialist"}
        /\ \A i \in InsightsUnits :
              /\ Get(i, "is_rejected", TRUE) = FALSE
              /\ i.observations = <<>> /\ i.anomalies = <<>> /\ i.root_causes = <<>>
        /\ \A c \in ChartSpecs : c # None /\ c.type = "empty"
        /\ \A f \in Finals : f.narrative.kind \in {"llm", "fallback"}
        /\ Quiescent => Published("final_response_ready", "s1", 1) = 1

\* the failed round has been composed with the templated fallback narrative
C35_Witness ==
    /\ ErrorRound
    /\ Quiescent
    /\ \E f \in Finals : f.narrative.kind = "fallback" /\ f.chart_spec.type = "empty"

\* the failed round has been composed with the narrative of the LLM
C35_WitnessLLM ==
    /\ ErrorRound
    /\ Quiescent
    /\ \E f \in Finals : f.narrative.kind = "llm" /\ f.chart_spec.type = "empty"

\* the rounds whose query service call raised
ErrorRounds == {<<e.session_id, e.rnd>> : e \in {x \in BagToSet(svc_log) : x.raised}}

\* the same round by round, with rounds of one session following each other: what is
\* published for a failed round is empty and not rejected, and no LLM is asked about it
C35_ErrorUnitsInEveryRound ==
    \A rd \in ErrorRounds :
        /\ \A e \in llm_log :
              e.agent \in {"quality_inspector", "visualization_specialist"}
                 => <<e.session_id, e.rnd>> # rd
        /\ \A i \in InsightsUnits :
              <<i.session_id, i.rnd>> = rd =>
                 /\ Get(i, "is_rejected", TRUE) = FALSE
                 /\ i.observations = <<>> /\ i.anomalies = <<>> /\ i.root_causes = <<>>
        /\ \A c \in ChartSpecs : (c # None /\ c.of = rd) => c.type = "empty"

\* C35: a failure of the query service is not a rejection: every round whose query
\* failed is composed through the narrative path (LLM or templated fallback) once
\* every handler has run, also when rounds of one session follow each other
C35_ErrorRoundsComposed ==
    Quiescent =>
        \A rd \in ErrorRounds :
            \E f \in Finals : f.narrative.kind \in {"llm", "fallback"} /\ f.narrative.about = rd

(***************************************************************************)
(* C36.  Fan-out of one result set.                                        *)
(***************************************************************************)
\* the data_ready deliveries still waiting for a handler
DataReadyFor(handler) == {d \in Inbox(handler) : d.knowledge.type = "data_ready"}

\* both subscribers of data_ready have handled the result set of the round
FannedOut ==
    /\ DataReadyFor("visualization_specialist") = {}
    /\ DataReadyFor("quality_inspector") = {}

\* the insight LLM answered with an anomalies list holding an entry that is no dict
NonDictAnomaly ==
    \E e \in InsightRuns :
        /\ e.ok
        /\ "anomalies" \in DOMAIN e.answer
        /\ \E i \in 1..Len(e.answer.anomalies) : ~e.answer.anomalies[i].dict

\* C36: once both subscribers have handled the data_ready of session s1, exactly one
\* chart_ready and exactly one insights_ready have been published for it, whatever
\* the LLMs answered
C36_OneChartOneInsights ==
    FannedOut =>
        /\ Published("chart_ready", "s1", 1) = 1
        /\ Published("insights_ready", "s1", 1) = 1

\* the same wherever no anomaly entry made the insight generator raise
C36_OneChartOneInsightsNoRaise ==
    (FannedOut /\ ~NonDictAnomaly) =>
        /\ Published("chart_ready", "s1", 1) = 1
        /\ Published("insights_ready", "s1", 1) = 1

\* a subscriber consumes its own delivery of the data_ready and leaves the delivery
\* of the other subscriber on the bus as it was
C36_OtherDeliveryUntouched ==
    [][\A d \in reef :
          (d.knowledge.type = "data_ready" /\ d \notin reef')
             => \A o \in reef : (o.knowledge.type = "data_ready" /\ o.to # d.to) => o \in reef']_vars

\* both units were published although the chart LLM failed
C36_BothPublished ==
    /\ FannedOut
    /\ Published("chart_ready", "s1", 1) = 1
    /\ Published("insights_ready", "s1", 1) = 1
    /\ \E e \in llm_log : e.agent = "visualization_specialist" /\ ~e.ok

(***************************************************************************)
(* C37.  The planner on a question the LLM classifies as out of domain,    *)
(* whatever else the answer holds                                          *)
(***************************************************************************)
\* the "metrics" (or "dimensions") entry of an answer: a list of names, absent, or null
EntryShapes(names) ==
    {[shape |-> "list", value |-> l] : l \in SeqsUpTo(names, MaxNames)}
    \cup {[shape |-> "missing"], [shape |-> "null"]}

\* the answer with one more entry of the given shape
WithEntry(result, key, entry) ==
    CASE entry.shape = "list" -> Put(result, key, entry.value)
      [] entry.shape = "null" -> Put(result, "null", Get(result, "null", {}) \cup {key})
      [] OTHER -> result

\* answers that classify the question as out of domain
RejectionAnswers ==
    {WithEntry(WithEntry([is_rejected |-> TRUE, rejection_reason |-> "out of scope"],
                         "metrics", m), "dimensions", dd) :
        m \in EntryShapes(RawMetricNames), dd \in EntryShapes(RawDimensionNames)}

NextRejections == \E d \in reef : plan(d, LLMAnswers \cup RejectionAnswers)

SpecRejections == InitPlanner /\ [][NextRejections]_vars

\* the LLM answered and classified the question as out of domain
ClassifiedOutOfDomain(e) == e.ok /\ Get(e.answer, "is_rejected", FALSE)

\* C37: whenever the LLM's answer classifies the question as out of domain, the
\* published domain_enriched_request is rejected and carries the reason of the
\* answer, whatever the metrics and dimensions entries of the answer are
C37_RejectionPublished ==
    \A p \in PlannedRequests :
        ClassifiedOutOfDomain(p[1]) =>
            /\ p[2].is_rejected
            /\ p[2].rejection_reason = p[1].answer.rejection_reason

\* the same for the answers whose lists are lists (of known or unknown names) or absent
C37_RejectionPublishedNoNull ==
    \A p \in PlannedRequests :
        (ClassifiedOutOfDomain(p[1]) /\ ~answer_raises(p[1].answer)) =>
            /\ p[2].is_rejected
            /\ p[2].rejection_reason = p[1].answer.rejection_reason

\* a rejection with an unknown metric and no dimensions entry was published as one
C37_UnknownNamesWitness ==
    \E p \in PlannedRequests :
        /\ ClassifiedOutOfDomain(p[1])
        /\ "dimensions" \notin DOMAIN p[1].answer
        /\ "metrics" \in DOMAIN p[1].answer /\ p[1].answer.metrics = <<"bogus">>
        /\ p[2].is_rejected

(***************************************************************************)
(* C38.  The measures of the queries sent to the query service             *)
(***************************************************************************)
\* analytics_specialist.py 21-60: METRIC_MAPPING has a table for one cube; of the
\* metric names the planner may publish, "count", "avgAge" and "avgStarScore" are
\* among its keys and "avgReviewTat" and "avgQ1" are not
METRIC_MAPPING ==
    [RadiologyAudits |-> [count |-> "RadiologyAudits.count",
                          avgAge |-> "RadiologyAudits.avgAge",
                          avgStarScore |-> "RadiologyAudits.avgStarScore"]]

\* f"{cube_name}.count"
CountOf ==
    [RadiologyAudits |-> "RadiologyAudits.count", PressOperations |-> "PressOperations.count",
     Patients |-> "Patients.count"]

\* a cube recommendation is the text of its cube names joined by "|", or json null
CubeRecommendations ==
    {[options |-> o] : o \in {<<"RadiologyAudits">>, <<"PressOperations">>, <<"Patients">>,
                              <<"RadiologyAudits", "PressOperations">>,
                              <<"Patients", "RadiologyAudits">>}}
    \cup {[null |-> TRUE]}

\* metric names of the planner's canonical set
PlannedMetricNames == {"count", "avgAge", "avgReviewTat", "avgQ1"}

\* lines 126-134: the first of the recommended cubes
cube_name_of(cube_recommendation) == cube_recommendation.options[1]

\* line 129: "|" in None raises, inside the try of the handler (383)
build_raises(k) == "null" \in DOMAIN k.cube_recommendation

\* a mapping that leaves the measure list as the loop left it
map_measures_without_default(cube_name, metrics) ==
    LET metric_map == Get(METRIC_MAPPING, cube_name, <<>>)
        mapped == SelectSeq(metrics, LAMBDA m : m \in DOMAIN metric_map)
    IN [i \in 1..Len(mapped) |-> metric_map[mapped[i]]]

\* lines 146-159: the metrics the cube's table knows, in order, else the cube's count
map_measures(cube_name, metrics) ==
    LET metric_map == Get(METRIC_MAPPING, cube_name, <<>>)
        mapped == SelectSeq(metrics, LAMBDA m : m \in DOMAIN metric_map)
        measures == [i \in 1..Len(mapped) |-> metric_map[mapped[i]]]
    IN IF measures = <<>> THEN <<Get(metric_map, "count", CountOf[cube_name])>>
       ELSE measures

\* the history entry of a call of the query service that also keeps the request and
\* the measures of the query sent
QueryCall(k, measures, outcome) ==
    [session_id |-> k.session_id, rnd |-> k.rnd, raised |-> outcome # "ok",
     cube_name |-> cube_name_of(k.cube_recommendation), metrics |-> k.metrics,
     measures |-> measures]

\* analytics_specialist_handler 350-440 with the measures of build_cube_query
send_query(d) ==
    /\ d \in Inbox("analytics_specialist")
    /\ LET k == d.knowledge IN
         IF k.is_rejected
         THEN /\ Broadcast({d}, <<rejected_data_ready(k)>>)
              /\ UNCHANGED svc_log
         ELSE IF build_raises(k)
         THEN /\ Broadcast({d}, <<error_data_ready(k, "internal_error")>>)
              /\ UNCHANGED svc_log
         ELSE LET measures == map_measures(cube_name_of(k.cube_recommendation), k.metrics) IN
              \E outcome \in ServiceOutcomes, n \in RowCounts :
                   /\ (outcome # "ok" => n = CHOOSE x \in RowCounts : TRUE)
                   /\ Broadcast({d}, <<IF outcome = "ok"
                                       THEN execute_query([k EXCEPT !.metrics = measures], n)
                                       ELSE error_data_ready(k, error_type_of(outcome))>>)
                   /\ svc_log' = svc_log (+) SetToBag({QueryCall(k, measures, outcome)})
    /\ UNCHANGED <<chat_state, session_data, pending_responses, composing, llm_log, taken>>
    /\ UNCHANGED back_office

\* the requests the planner may have published for the round
MeasureCases ==
    {[unit |-> [type |-> "domain_enriched_request", is_rejected |-> FALSE,
                rejection_reason |-> NoReason, cube_recommendation |-> c,
                metrics |-> m, dimensions |-> <<>>, session_id |-> "s1", rnd |-> 1],
      calls |-> {}] :
        c \in CubeRecommendations, m \in SeqsUpTo(PlannedMetricNames, MaxNames) \ {<<>>}}
    \cup {[unit |-> RejectedChartRequest, calls |-> {}]}

InitMeasures == InitWith(MeasureCases)

NextMeasures == \E d \in reef : send_query(d)

SpecMeasures == InitMeasures /\ [][NextMeasures]_vars

\* the queries sent to the query service
QueriesSent == BagToSet(svc_log)

\* no metric of the request is a key of the table of the cube
NoneMapped(e) ==
    \A i \in 1..Len(e.metrics) :
        e.metrics[i] \notin DOMAIN Get(METRIC_MAPPING, e.cube_name, <<>>)

\* C38: every query sent to the query service has at least one measure; when no
\* metric of the request is mapped for the chosen cube, or the cube has no mapping
\* table, the single measure is the record count of that cube
C38_AtLeastOneMeasure ==
    \A e \in QueriesSent :
        /\ e.measures # <<>>
        /\ NoneMapped(e) => e.measures = <<CountOf[e.cube_name]>>

\* a query was sent for a cube without a mapping table
C38_NoTableWitness ==
    \E e \in QueriesSent :
        /\ e.cube_name \notin DOMAIN METRIC_MAPPING
        /\ e.measures = <<CountOf[e.cube_name]>>

\* a query was sent for metrics that the table of the cube does not know
C38_UnmappedWitness ==
    \E e \in QueriesSent :
        /\ e.cube_name \in DOMAIN METRIC_MAPPING
        /\ NoneMapped(e)
        /\ e.measures = <<"RadiologyAudits.count">>

(***************************************************************************)
(* C39.  The type of the chart specifications, for every archetype name    *)
(* the LLM may return and when building the specification raises           *)
(***************************************************************************)
\* the names of generate_chart_spec 173-195
Archetypes == {"empty", "kpi", "table", "bar", "grouped_bar", "line", "donut"}

\* what the chart-selection LLM may answer with: the archetypes and names that are none,
\* one of them a chart type the front end knows (app.py 284-286)
AnyChartTypeAnswers == ChartTypeAnswers \cup {"gauge", "pie"}

\* lines 697-699: the specification published when generate_chart_spec raised
FailedChartSpec == [type |-> "empty", message |-> "Chart generation failed"]

\* visualization_specialist_handler 638-714 on a data_ready whose query_results are
\* rows; built says whether generate_chart_spec returned or raised inside the try of
\* 686-699
render_guarded(d) ==
    /\ d \in Inbox("visualization_specialist")
    /\ LET k == d.knowledge IN
         \E ok \in BOOLEAN, answer \in AnyChartTypeAnswers, built \in BOOLEAN :
           /\ LET chart_type == determine_chart_type(k.metadata, ok, answer) IN
                \E iteration \in Iterations(iterated_names(k.query_results, k.dimensions,
                                                           k.measures, chart_type)) :
                  Broadcast({d}, <<[type |-> "chart_ready", chart_type |-> chart_type,
                                    chart_spec |->
                                        IF built
                                        THEN generate_chart_spec_rows(k.query_results,
                                                 k.measures, k.dimensions, chart_type, iteration)
                                        ELSE FailedChartSpec,
                                    session_id |-> k.session_id, rnd |-> k.rnd]>>)
           /\ llm_log' = IF needs_chart_llm(k.metadata)
                         THEN llm_log \cup {LLMCall("visualization_specialist", k,
                                                    "determine_chart_type", ok)}
                         ELSE llm_log
    /\ UNCHANGED <<chat_state, session_data, pending_responses, composing, svc_log, taken>>
    /\ UNCHANGED back_office

NextChartTypes == \E d \in reef : render_guarded(d)

SpecChartTypes == InitChart /\ [][NextChartTypes]_vars

\* C39: the type of every chart specification carried by a chart_ready is one of kpi,
\* bar, grouped_bar, line, donut, table, empty; an archetype name that is none of the
\* builders' yields a table or empty specification, and a specification whose
\* building raised is empty
C39_ChartSpecTypes ==
    \A c \in ChartsReady :
        /\ c.chart_spec.type \in Archetypes
        /\ c.chart_type \notin Archetypes => c.chart_spec.type \in {"table", "empty"}
        /\ c.chart_spec = FailedChartSpec => c.chart_spec.type = "empty"

\* the LLM named a chart type the front end knows but no builder builds, and a table
\* was published for it
C39_UnknownTypeWitness ==
    \E c \in ChartsReady : c.chart_type = "gauge" /\ c.chart_spec.type = "table"

\* building the specification of a bar chart raised and an empty one was published
C39_FailedBuildWitness ==
    \E c \in ChartsReady : c.chart_type = "bar" /\ c.chart_spec = FailedChartSpec

====
